---- MODULE Spec2Model ----
(***************************************************************************)
(* bee-cli: the `bee login` command.  A login run either verifies a token  *)
(* given on the command line, or obtains one by device pairing             *)
(* (loginWithAppPairing / pollForAppToken), verifies it at the identity    *)
(* endpoint (fetchClientMe) and stores it (saveToken).  Both HTTP layers   *)
(* retry network failures and 5xx responses (fetchWithRetry).              *)
(*                                                                         *)
(* A behaviour is one run of the command, started on a secret store as    *)
(* earlier runs may have left it.  Time is in milliseconds, as in the      *)
(* code.  A sleep advances the clock by its duration; a fetch and a store  *)
(* access take no time.                                                    *)
(***************************************************************************)
EXTENDS Integers, Sequences, FiniteSets, TLC

\* ------------------------------------------------------------- bounds
\* Date.now() when the run starts.
Epoch == 10000
\* Lifetime the server gives a pairing request (expiresAt = now + PairTTL).
PairTTL == 5000
\* Number of transport calls of a run whose first attempt may fail; once a
\* call has failed, each of its later attempts may fail as well.
MaxFlaky == 1
\* The history counts the pairing transport calls of a run up to this many.
MaxCounted == 6

\* The longest list given to runWithConcurrency.
MaxItems == 6

\* -------------------------------------------------- program constants
MAX_RETRIES == 10
MAX_BACKOFF_MS == 30000
clientMe_MAX_RETRIES == 10
clientMe_MAX_BACKOFF_MS == 30000
\* intervalMs of pollForAppToken
intervalMs == 2000
\* 5 * 60 * 1000, the fallback lifetime of pollForAppToken
FallbackMs == 300000
\* 1 + APP_PAIRING_NONCE_SIZE + APP_PAIRING_PUBLIC_KEY_SIZE + 16
minimumSize == 73
APP_PAIRING_ENCRYPTION_VERSION == 1
\* the limit the sync command gives runWithConcurrency
CONVERSATION_CONCURRENCY == 4

Environment == {"prod", "staging"}

\* ------------------------------------------------------------ strings
\* A token is a sequence of characters, so that trim() is computed.
IsSpace(c) == c \in {" ", "\n"}

RECURSIVE TrimStart(_)
TrimStart(s) ==
  IF s # <<>> /\ IsSpace(Head(s)) THEN TrimStart(Tail(s)) ELSE s

RECURSIVE TrimEnd(_)
TrimEnd(s) ==
  IF s # <<>> /\ IsSpace(s[Len(s)]) THEN TrimEnd(SubSeq(s, 1, Len(s) - 1)) ELSE s

\* String.prototype.trim
Trim(s) == TrimEnd(TrimStart(s))

Min(a, b) == IF a <= b THEN a ELSE b

\* ---------------------------------------------------------- encodings
\* Buffer.from(x).toString("base64") and Buffer.from(y, "base64")
B64(x) == [b64 |-> x]
UnB64(y) == y.b64

\* Date.parse: a timestamp string is either ISO text for an instant or garbage.
IsoString(t) == [iso |-> TRUE, ms |-> t]
GarbageDate == [iso |-> FALSE, ms |-> 0]
DateParse(s) == IF s.iso THEN [nan |-> FALSE, ms |-> s.ms] ELSE [nan |-> TRUE, ms |-> 0]

\* --------------------------------------------------------------- keys
\* nacl.box.keyPair(): keypair number k; the secret key opens what was
\* sealed for the public key of the same number.
PubKey(k) == [pub |-> k]
SecKey(k) == [sec |-> k]

generateAppPairingKeyPair(k) ==
  [publicKeyBase64 |-> B64(PubKey(k)), publicKeyBytes |-> PubKey(k), secretKey |-> SecKey(k)]

\* nacl.box(text, nonce, recipientPublicKey, senderSecretKey)
BoxSeal(text, nonce, recipientPub, senderSec) ==
  [junk |-> FALSE, to |-> recipientPub.pub, from |-> senderSec.sec, nonce |-> nonce, text |-> text]

JunkBox == [junk |-> TRUE, to |-> 0, from |-> 0, nonce |-> 0, text |-> <<>>]

\* nacl.box.open(ciphertext, nonce, senderPublicKey, recipientSecretKey):
\* the opened text in a set, or the empty set for null.
BoxOpen(ct, nonce, senderPub, recipientSec) ==
  IF ~ct.junk /\ ct.to = recipientSec.sec /\ ct.from = senderPub.pub /\ ct.nonce = nonce
  THEN {ct.text} ELSE {}

\* ------------------------------------------------------------- errors
NoError == [class |-> "none", text |-> "", status |-> 0]
Err(class, text) == [class |-> class, text |-> text, status |-> 0]
StatusErr(status) == [class |-> "Error", text |-> "Request failed with status", status |-> status]

\* Variant of decryptAppPairingToken that does not check the version byte.
decryptAppPairingToken_NoVersion(encryptedTokenBase64, secretKey) ==
  LET packed == UnB64(encryptedTokenBase64)
      opened == BoxOpen(packed.ct, packed.nonce, packed.epk, secretKey)
      text   == CHOOSE t \in opened : TRUE
  IN  IF packed.len < minimumSize
      THEN [ok |-> FALSE, token |-> <<>>, opened |-> FALSE,
            err |-> Err("Error", "Invalid response from developer API.")]
      ELSE IF opened = {}
      THEN [ok |-> FALSE, token |-> <<>>, opened |-> TRUE,
            err |-> Err("Error", "Invalid response from developer API.")]
      ELSE IF Trim(text) = <<>>
      THEN [ok |-> FALSE, token |-> <<>>, opened |-> TRUE,
            err |-> Err("Error", "Invalid response from developer API.")]
      ELSE [ok |-> TRUE, token |-> Trim(text), opened |-> TRUE, err |-> NoError]

\* decryptAppPairingToken(encryptedTokenBase64, secretKey): the token, or
\* the error thrown; `opened` tells whether nacl.box.open was called.
decryptAppPairingToken(encryptedTokenBase64, secretKey) ==
  LET packed == UnB64(encryptedTokenBase64)
      opened == BoxOpen(packed.ct, packed.nonce, packed.epk, secretKey)
      text   == CHOOSE t \in opened : TRUE
  IN  IF packed.len < minimumSize
      THEN [ok |-> FALSE, token |-> <<>>, opened |-> FALSE,
            err |-> Err("Error", "Invalid response from developer API.")]
      ELSE IF packed.version # APP_PAIRING_ENCRYPTION_VERSION
      THEN [ok |-> FALSE, token |-> <<>>, opened |-> FALSE,
            err |-> Err("Error", "Unsupported pairing payload version.")]
      ELSE IF opened = {}
      THEN [ok |-> FALSE, token |-> <<>>, opened |-> TRUE,
            err |-> Err("Error", "Invalid response from developer API.")]
      ELSE IF Trim(text) = <<>>
      THEN [ok |-> FALSE, token |-> <<>>, opened |-> TRUE,
            err |-> Err("Error", "Invalid response from developer API.")]
      ELSE [ok |-> TRUE, token |-> Trim(text), opened |-> TRUE, err |-> NoError]

\* ------------------------------------------------ the two retry loops
\* Variant of getBackoffDelay that leaves out the MAX_BACKOFF_MS cap.
getBackoffDelay_Uncapped(attempt) == 1000 * 2 ^ (attempt - 1)

\* getBackoffDelay of appPairingRequest
getBackoffDelay(attempt) == Min(1000 * 2 ^ (attempt - 1), MAX_BACKOFF_MS)

\* getBackoffDelay of clientMe
clientMe_getBackoffDelay(attempt) == Min(1000 * 2 ^ (attempt - 1), clientMe_MAX_BACKOFF_MS)

Retry(let, delay) == [do |-> "sleep", lastErrorType |-> let, delay |-> delay, err |-> NoError]
Return(let) == [do |-> "return", lastErrorType |-> let, delay |-> 0, err |-> NoError]
Throw(let, e) == [do |-> "throw", lastErrorType |-> let, delay |-> 0, err |-> e]

\* What follows the for loop of fetchWithRetry once it has run out.
AfterLoop(let) ==
  IF let = "network"
  THEN Throw(let, Err("NetworkError",
         "Unable to connect to Bee services. Please check your internet connection and try again."))
  ELSE IF let = "server"
  THEN Throw(let, Err("ServerError",
         "Bee servers are currently experiencing issues. Please try again later."))
  ELSE Throw(let, Err("Error", "Request failed after multiple retries."))

\* Variant of fetchWithRetry that tests attempt <= MAX_RETRIES before it
\* retries, and so retries once more.
fetchWithRetry_OffByOne(attempt, lastErrorType, o) ==
  IF o.kind = "response"
  THEN IF o.status >= 500 /\ o.status < 600
       THEN IF attempt <= MAX_RETRIES
            THEN Retry("server", getBackoffDelay(attempt))
            ELSE Return("server")
       ELSE Return(lastErrorType)
  ELSE IF attempt <= MAX_RETRIES
       THEN Retry("network", getBackoffDelay(attempt))
       ELSE AfterLoop("network")

\* One iteration of the for loop of fetchWithRetry (appPairingRequest): the
\* fetch of this attempt ended as `o` (it threw, or gave a response).
fetchWithRetry(attempt, lastErrorType, o) ==
  IF o.kind = "response"
  THEN IF o.status >= 500 /\ o.status < 600
       THEN IF attempt < MAX_RETRIES
            THEN Retry("server", getBackoffDelay(attempt))
            ELSE Return("server")
       ELSE Return(lastErrorType)
  ELSE IF attempt < MAX_RETRIES
       THEN Retry("network", getBackoffDelay(attempt))
       ELSE AfterLoop("network")

\* Variant of fetchWithRetry of clientMe that throws the ServerError when
\* the last attempt is answered 5xx.
clientMe_fetchWithRetry_ThrowsServer(attempt, lastErrorType, o) ==
  IF o.kind = "response"
  THEN IF o.status >= 500 /\ o.status < 600
       THEN IF attempt < clientMe_MAX_RETRIES
            THEN Retry("server", clientMe_getBackoffDelay(attempt))
            ELSE AfterLoop("server")
       ELSE Return(lastErrorType)
  ELSE IF attempt < clientMe_MAX_RETRIES
       THEN Retry("network", clientMe_getBackoffDelay(attempt))
       ELSE AfterLoop("network")

\* The same iteration of fetchWithRetry in clientMe.
clientMe_fetchWithRetry(attempt, lastErrorType, o) ==
  IF o.kind = "response"
  THEN IF o.status >= 500 /\ o.status < 600
       THEN IF attempt < clientMe_MAX_RETRIES
            THEN Retry("server", clientMe_getBackoffDelay(attempt))
            ELSE Return("server")
       ELSE Return(lastErrorType)
  ELSE IF attempt < clientMe_MAX_RETRIES
       THEN Retry("network", clientMe_getBackoffDelay(attempt))
       ELSE AfterLoop("network")

\* ------------------------------------------------------ secret store
\* loadToken / saveToken of secureStore: the stored value, trimmed; the
\* empty string stands for null.
loadToken(store, e) == Trim(store[e])

\* Variant of saveToken that writes the slot of prod whatever the environment.
saveToken_Prod(store, e, t) == [store EXCEPT !["prod"] = t]

saveToken(store, e, t) == [store EXCEPT ![e] = t]

\* The pairing-state store keeps at most one PairingState per environment:
\* the set holding it, or the empty set.
loadPairingState(store, e) == store[e]

savePairingState(store, e, state) == [store EXCEPT ![e] = {state}]

clearPairingState(store, e) == [store EXCEPT ![e] = {}]

\* ------------------------------------------------ login: pure helpers
buildPairingUrl(requestId) == <<"https://bee.computer/connect/", requestId>>

getDefaultAppId(e) ==
  IF e = "staging" THEN "pk5z3uuzjpxj4f7frk6rsq2f" ELSE "ph9fssu1kv1b0hns69fxf7rx"

\* Variant of isExpired that compares with > instead of >=.
isExpired_Strict(existingState, t) ==
  LET expiresAtMs == DateParse(existingState.expiresAt)
  IN  ~expiresAtMs.nan /\ t > expiresAtMs.ms

\* Variant of isExpired that takes expiresAt for seconds.
isExpired_Seconds(existingState, t) ==
  LET expiresAtMs == DateParse(existingState.expiresAt)
  IN  ~expiresAtMs.nan /\ t >= expiresAtMs.ms \div 1000

\* Variant of isExpired that takes an unparsable expiresAt for expired.
isExpired_NaNExpired(existingState, t) ==
  LET expiresAtMs == DateParse(existingState.expiresAt)
  IN  expiresAtMs.nan \/ t >= expiresAtMs.ms

\* isExpired of loginWithAppPairing
isExpired(existingState, t) ==
  LET expiresAtMs == DateParse(existingState.expiresAt)
  IN  ~expiresAtMs.nan /\ t >= expiresAtMs.ms

\* Variant of pollDeadline that falls back only when expiresAt is unparsable.
pollDeadline_NoFallback(expiresAt, t) ==
  LET expiresAtMs == DateParse(expiresAt)
  IN  IF expiresAtMs.nan THEN t + FallbackMs ELSE expiresAtMs.ms

\* deadline of pollForAppToken
pollDeadline(expiresAt, t) ==
  LET expiresAtMs == DateParse(expiresAt)
  IN  IF expiresAtMs.nan \/ expiresAtMs.ms <= 0 THEN t + FallbackMs ELSE expiresAtMs.ms

\* ------------------------------------------------- response decoding
Has(body, f) == f \in DOMAIN body

\* typeof body[f] === "string": a body lists under nonString those of its
\* fields whose JSON value is of another type.
IsString(body, f) ==
  /\ Has(body, f)
  /\ ~(Has(body, "nonString") /\ f \in body.nonString)

NullBody == [null |-> TRUE]

ResponseOk(o) == o.status >= 200 /\ o.status <= 299

NoPairing ==
  [status |-> "none", requestId |-> "", expiresAt |-> GarbageDate, encryptedToken |-> B64(0)]

Returned(v) == [threw |-> FALSE, err |-> NoError, val |-> v]
Thrown(e) == [threw |-> TRUE, err |-> e, val |-> NoPairing]

InvalidResponse == Thrown(Err("Error", "Invalid response from developer API."))

\* Variant of requestAppPairing that does not look at the ok field.
requestAppPairing_NoOkCheck(o) ==
  LET data == o.body IN
  IF ~ResponseOk(o)
  THEN IF o.status = 404 /\ (~IsString(data, "error") \/ data.error \in {"", "Not Found"})
       THEN Thrown(Err("Error", "Pairing endpoint not found."))
       ELSE IF IsString(data, "error")
            THEN Thrown(Err("Error", data.error))
            ELSE Thrown(StatusErr(o.status))
  ELSE IF IsString(data, "status") /\ data.status = "pending"
  THEN IF ~IsString(data, "requestId") \/ ~IsString(data, "expiresAt") THEN InvalidResponse
       ELSE Returned([NoPairing EXCEPT !.status = "pending", !.requestId = data.requestId,
                                       !.expiresAt = data.expiresAt])
  ELSE IF IsString(data, "status") /\ data.status = "completed"
  THEN IF \/ ~IsString(data, "requestId")
          \/ ~Has(data, "result")
          \/ ~IsString(data.result, "encryptedToken")
       THEN InvalidResponse
       ELSE Returned([NoPairing EXCEPT !.status = "completed", !.requestId = data.requestId,
                                       !.encryptedToken = data.result.encryptedToken])
  ELSE IF IsString(data, "status") /\ data.status = "expired"
  THEN IF ~IsString(data, "requestId") THEN InvalidResponse
       ELSE Returned([NoPairing EXCEPT !.status = "expired", !.requestId = data.requestId])
  ELSE InvalidResponse

\* requestAppPairing after fetchPairing returned the response o. A result
\* that is no object is a body without encryptedToken.
requestAppPairing(o) ==
  LET data == o.body IN
  IF ~ResponseOk(o)
  THEN IF o.status = 404 /\ (~IsString(data, "error") \/ data.error \in {"", "Not Found"})
       THEN Thrown(Err("Error", "Pairing endpoint not found."))
       ELSE IF IsString(data, "error")
            THEN Thrown(Err("Error", data.error))
            ELSE Thrown(StatusErr(o.status))
  ELSE IF ~(Has(data, "ok") /\ data.ok = TRUE) THEN InvalidResponse
  ELSE IF IsString(data, "status") /\ data.status = "pending"
  THEN IF ~IsString(data, "requestId") \/ ~IsString(data, "expiresAt") THEN InvalidResponse
       ELSE Returned([NoPairing EXCEPT !.status = "pending", !.requestId = data.requestId,
                                       !.expiresAt = data.expiresAt])
  ELSE IF IsString(data, "status") /\ data.status = "completed"
  THEN IF \/ ~IsString(data, "requestId")
          \/ ~Has(data, "result")
          \/ ~IsString(data.result, "encryptedToken")
       THEN InvalidResponse
       ELSE Returned([NoPairing EXCEPT !.status = "completed", !.requestId = data.requestId,
                                       !.encryptedToken = data.result.encryptedToken])
  ELSE IF IsString(data, "status") /\ data.status = "expired"
  THEN IF ~IsString(data, "requestId") THEN InvalidResponse
       ELSE Returned([NoPairing EXCEPT !.status = "expired", !.requestId = data.requestId])
  ELSE InvalidResponse

NoUser == [id |-> 0, first_name |-> "", last_name |-> ""]

\* Variant of fetchClientMe that does not check the shape of the profile.
fetchClientMe_Unchecked(o) ==
  LET data == o.body IN
  IF ~ResponseOk(o)
  THEN IF Has(data, "error")
       THEN [threw |-> TRUE, err |-> Err("Error", data.error), val |-> NoUser]
       ELSE [threw |-> TRUE, err |-> StatusErr(o.status), val |-> NoUser]
  ELSE [threw |-> FALSE, err |-> NoError, val |-> NoUser]

\* fetchClientMe after fetchWithRetry returned the response o.
fetchClientMe(o) ==
  LET data == o.body IN
  IF ~ResponseOk(o)
  THEN IF Has(data, "error")
       THEN [threw |-> TRUE, err |-> Err("Error", data.error), val |-> NoUser]
       ELSE [threw |-> TRUE, err |-> StatusErr(o.status), val |-> NoUser]
  ELSE IF ~Has(data, "id") \/ ~Has(data, "first_name")
  THEN [threw |-> TRUE, err |-> Err("Error", "Invalid response from API."), val |-> NoUser]
  ELSE [threw |-> FALSE, err |-> NoError,
        val |-> [id |-> data.id, first_name |-> data.first_name,
                 last_name |-> IF Has(data, "last_name") THEN data.last_name ELSE ""]]

\* ---------------------------------------------------- the environment
\* Tokens a user may type, and the plaintexts the phone app may seal.
TokA == <<"a", "1">>
TokOld == <<"o", "l", "d">>
TokNew == <<"n", "e", "w">>
Blank == <<" ">>

TokenArgs == {TokA, <<" ">> \o TokA \o <<"\n">>, Blank}
Plaintexts == {TokNew, <<" ">> \o TokNew \o <<"\n">>, Blank}

\* The phone app's keypair.
AppKey == 0

Packed(len, version, ct) ==
  B64([len |-> len, version |-> version, nonce |-> 7, epk |-> PubKey(AppKey), ct |-> ct])

\* The encryptedToken values a Completed response may carry, for a request
\* that carried publicKey: well formed, truncated, of another version, or
\* sealed for another key.
Payloads(publicKey) ==
  {Packed(57 + 16 + Len(t), 1, BoxSeal(t, 7, UnB64(publicKey), SecKey(AppKey))) : t \in Plaintexts}
  \cup {Packed(72, 1, JunkBox),
        Packed(57 + 16 + Len(TokNew), 2, BoxSeal(TokNew, 7, UnB64(publicKey), SecKey(AppKey))),
        Packed(57 + 16 + Len(TokNew), 1, BoxSeal(TokNew, 7, PubKey(AppKey), SecKey(AppKey)))}

Threw == [kind |-> "throw", status |-> 0, body |-> NullBody]
Response(status, body) == [kind |-> "response", status |-> status, body |-> body]

\* The expiresAt values a Pending response may carry at time t, by kind.
ExpiresAtOf(kind, t) ==
  IF kind = "iso" THEN IsoString(t + PairTTL)
  ELSE IF kind = "past" THEN IsoString(t - 1000)
  ELSE IF kind = "epoch" THEN IsoString(0) ELSE GarbageDate

\* The fetch outcomes that make fetchWithRetry try again.
Failures == {Threw, Response(503, NullBody)}

\* Everything but a failure that one fetch of the pairing endpoint may end
\* in at time t, for a server that sends the given kinds of expiresAt.
PairingOutcomes(publicKey, t, kinds) ==
  {Response(200, [ok |-> TRUE, status |-> "pending", requestId |-> "r1",
                  expiresAt |-> ExpiresAtOf(k, t)]) : k \in kinds}
  \cup {Response(200, [ok |-> TRUE, status |-> "completed", requestId |-> "r1",
                       result |-> [encryptedToken |-> p]]) : p \in Payloads(publicKey)}
  \cup {Response(200, [ok |-> TRUE, status |-> "expired", requestId |-> "r1"]),
        Response(200, NullBody),
        Response(200, [status |-> "pending", requestId |-> "r1", expiresAt |-> GarbageDate]),
        Response(200, [ok |-> TRUE, status |-> "pending", requestId |-> "r1"]),
        Response(200, [ok |-> TRUE, status |-> "completed", requestId |-> "r1"]),
        Response(200, [ok |-> TRUE, status |-> "expired"]),
        Response(200, [ok |-> TRUE, status |-> "paused", requestId |-> "r1"]),
        Response(404, NullBody),
        Response(404, [error |-> "Not Found"]),
        Response(400, [error |-> "invalid_app"]),
        Response(429, NullBody)}

\* Everything but a failure that one fetch of /v1/me may end in.
MeOutcomes ==
  {Response(200, [id |-> 1, first_name |-> "Ada", last_name |-> "L"]),
   Response(200, [id |-> 1, first_name |-> "Ada"]),
   Response(200, [first_name |-> "Ada"]),
   Response(200, NullBody),
   Response(401, [error |-> "Unauthorized"]),
   Response(403, NullBody)}

OutcomeClass(o) ==
  IF o.kind = "throw" THEN "network"
  ELSE IF o.status >= 500 /\ o.status < 600 THEN "server" ELSE "other"

\* -------------------------------------------------------------- state
VARIABLES
  pc,            \* where the login process stands
  now,           \* Date.now()
  env,           \* context.env
  cred,          \* secret store: the token stored for each environment
  pairingState,  \* secret store: the PairingState stored for each environment
  nextKey,       \* the keypair the next nacl.box.keyPair() call yields
  token,         \* handleLogin: the token under verification
  mem,           \* loginWithAppPairing / pollForAppToken: appId, keys, deadline
  resumed,       \* loginWithAppPairing took the resumed path
  attempt,       \* fetchWithRetry: loop counter
  lastErrorType, \* fetchWithRetry: lastErrorType
  sleeping,      \* duration of the sleep in progress, 0 when none
  ret,           \* what the transport call just ended returned or threw
  result,        \* how the run ended
  banner,        \* what printWelcomeMessage was given
  serverDates,   \* the kinds of expiresAt the pairing server sends
  flaky,         \* transport calls of this run whose first attempt failed
  lastOutcome,   \* history: how the latest fetch of the current call ended
  fetches,       \* history: fetch calls issued by the current transport call
  sleeps,        \* history: backoff delays slept by the current transport call
  hist,          \* history of the run
  kill,          \* history: where a SIGINT hit the process
  input,         \* the argument of the function applied on its own
  output         \* what that function returned or threw

vars == <<pc, now, env, cred, pairingState, nextKey, token, mem, resumed, attempt,
          lastErrorType, sleeping, ret, result, banner, serverDates, flaky, lastOutcome,
          fetches, sleeps, hist, kill, input, output>>

callVars == <<attempt, lastErrorType, sleeping, lastOutcome, fetches, sleeps>>

NoMem == [appId |-> "", publicKey |-> B64(PubKey(0)), secretKey |-> SecKey(0), deadline |-> 0]
\* How the run ended, with the exit code of the process and what it wrote
\* to standard error and standard output when it ended.
NoResult ==
  [status |-> "running", err |-> NoError, user |-> NoUser, exitCode |-> 0,
   stderr |-> <<>>, stdout |-> <<>>]
NoRet == [call |-> "none", threw |-> FALSE, err |-> NoError, val |-> NoPairing]
NoKill == [at |-> "none", phase |-> "none"]
NoBanner == [status |-> "none", url |-> <<>>]

NoEnd == [in |-> "none", why |-> "none"]
NoInput == [fn |-> "none"]
NoOutput == [fn |-> "none"]

\* What the history of a run records: the credentials stored when it began,
\* the tokens the identity endpoint accepted and those saved, the
\* PairingState loaded and when, the keypairs generated, the keys and appIds
\* sent and the secret keys given to the decryptor, the PairingStates saved,
\* the stored PairingState when polling began and when the latest poll was
\* issued, the number of clearPairingState calls, how pairing ended, the
\* number of pairing transport calls begun (counted up to MaxCounted), the
\* time slept between the polls counted, the time at which
\* pollForAppToken was entered, the time at which the latest pairing
\* transport call was begun, and the payloads given to the decryptor.
NewHist ==
  [credAtStart |-> [e \in Environment |-> <<>>], verified |-> {}, tokenSaves |-> <<>>,
   entered |-> FALSE, loaded |-> {}, loadedAt |-> 0, generated |-> {}, pkSent |-> {},
   appIdSent |-> {}, skUsed |-> {}, saved |-> <<>>, stateAtPoll |-> {}, stateAtCall |-> {},
   clears |-> 0, ended |-> NoEnd, calls |-> 0, pollSlept |-> 0,
   pollFrom |-> 0, callAt |-> 0, payloads |-> {}]

\* The identity endpoint answered 2xx with a profile that has an id and a
\* first name.
ValidProfile(o) ==
  /\ o.kind = "response"
  /\ o.status \in 200..299
  /\ {"id", "first_name"} \subseteq DOMAIN o.body

\* The transport call just ended failed on every one of its MAX_RETRIES fetches.
Exhausted == fetches = MAX_RETRIES /\ lastOutcome \in {"network", "server"}

Ended(in, why) == [in |-> in, why |-> why]

\* The PairingState an earlier run of loginWithAppPairing saved for e, with
\* keypair 1 and the given expiresAt.
StoredState(e, expiresAt) ==
  [appId |-> getDefaultAppId(e), publicKey |-> B64(PubKey(1)), secretKey |-> B64(SecKey(1)),
   requestId |-> "r0", pairingUrl |-> buildPairingUrl("r0"), expiresAt |-> expiresAt]

\* The store as earlier runs may have left it for e: no PairingState, or
\* one that is unexpired, just expired or long expired.
InitialStates(e) ==
  {{}} \cup {{StoredState(e, x)} :
               x \in {IsoString(Epoch + PairTTL), IsoString(Epoch), IsoString(Epoch - 1000)}}

\* The locals and the history of a process that has not run yet.
InitLocals ==
  /\ now = Epoch
  /\ nextKey = 2
  /\ token = <<>>
  /\ mem = NoMem
  /\ resumed = FALSE
  /\ attempt = 0
  /\ lastErrorType = "null"
  /\ sleeping = 0
  /\ ret = NoRet
  /\ result = NoResult
  /\ banner = NoBanner
  /\ lastOutcome = "none"
  /\ fetches = 0
  /\ sleeps = <<>>
  /\ hist = NewHist
  /\ kill = NoKill

\* The process as runCli starts it, before handleLogin is entered.
InitProcess ==
  /\ InitLocals
  /\ pc = "idle"
  /\ input = NoInput
  /\ output = NoOutput

InitRun ==
  /\ InitProcess
  /\ flaky = 0
  /\ env \in Environment
  /\ \E t \in {<<>>, TokOld} : cred = [e \in Environment |-> IF e = env THEN t ELSE <<>>]
  /\ \E st \in InitialStates(env) :
       pairingState = [e \in Environment |-> IF e = env THEN st ELSE {}]

Init ==
  /\ InitRun
  /\ serverDates = {"iso", "past"}

\* The first fetch of a transport call is issued.
StartCall(p) ==
  /\ pc' = p
  /\ attempt' = 1
  /\ lastErrorType' = "null"
  /\ sleeping' = 0
  /\ lastOutcome' = "none"
  /\ fetches' = 0
  /\ sleeps' = <<>>

\* What console.log or console.error printed, a line at a time.
Line(kind, text) == [kind |-> kind, text |-> text]

\* [user.first_name, user.last_name].filter(Boolean).join(" ")
Name(user) == SelectSeq(<<user.first_name, user.last_name>>, LAMBDA x : x # "")

\* error.message
Message(e) == <<e.text, e.status>>

\* printCommandHelp(command)
printCommandHelp == <<Line("usage", <<>>), Line("blank", <<>>), Line("description", <<>>)>>

\* printSuccessMessage(user)
printSuccessMessage(user) ==
  <<Line("blank", <<>>), Line("connected", Name(user)), Line("blank", <<>>),
    Line("ready", <<>>)>>

\* What handleLogin prints when the stored credential is still valid.
AlreadyConnectedMessage(user) ==
  <<Line("blank", <<>>), Line("already connected", Name(user)), Line("blank", <<>>),
    Line("logout hint", <<>>), Line("blank", <<>>), Line("important", <<>>),
    Line("reauthenticating", <<>>), Line("blank", <<>>)>>

\* Variant of Exit in which the catch of runCli does not set the exit code.
Exit_NoExitCode(status, e, user) ==
  /\ pc' = "exit"
  /\ result' =
       IF status = "error"
       THEN [status |-> status, err |-> e, user |-> user, exitCode |-> 0,
             stderr |-> <<Line("error", Message(e))>>, stdout |-> printCommandHelp]
       ELSE [status |-> status, err |-> e, user |-> user, exitCode |-> 0, stderr |-> <<>>,
             stdout |-> IF status = "ok" THEN printSuccessMessage(user)
                        ELSE AlreadyConnectedMessage(user)]

\* The command ends: handleLogin returns after its last message, or throws
\* the error that runCli catches, prints and turns into exit code 1.
Exit(status, e, user) ==
  /\ pc' = "exit"
  /\ result' =
       IF status = "error"
       THEN [status |-> status, err |-> e, user |-> user, exitCode |-> 1,
             stderr |-> <<Line("error", Message(e))>>, stdout |-> printCommandHelp]
       ELSE [status |-> status, err |-> e, user |-> user, exitCode |-> 0, stderr |-> <<>>,
             stdout |-> IF status = "ok" THEN printSuccessMessage(user)
                        ELSE AlreadyConnectedMessage(user)]

\* The failures the fetch of this attempt may end in.
FailuresNow == IF attempt > 1 \/ flaky < MaxFlaky THEN Failures ELSE {}

Flaky(o) == IF attempt = 1 /\ o \in Failures THEN flaky + 1 ELSE flaky

\* ------------------------------------------------------- handleLogin
\* handleLogin, lines 45-82: the options are parsed and, without a token,
\* the stored credential is loaded.
HandleLoginStart(mode, arg) ==
  /\ pc = "idle"
  /\ hist' = [hist EXCEPT !.credAtStart = cred]
  /\ UNCHANGED <<now, env, cred, pairingState, nextKey, mem, resumed, ret, banner,
                 serverDates, flaky, kill, input, output>>
  /\ LET t == IF mode \in {"token", "stdin"} THEN Trim(arg) ELSE <<>>
         existingToken == loadToken(cred, env)
     IN  IF mode = "both"
         THEN /\ Exit("error", Err("Error", "Use either --token or --token-stdin, not both."),
                      NoUser)
              /\ UNCHANGED <<token, callVars>>
         ELSE /\ UNCHANGED result
              /\ IF t # <<>>
                 THEN token' = t /\ StartCall("me")
                 ELSE IF existingToken # <<>>
                 THEN token' = existingToken /\ StartCall("meExisting")
                 ELSE /\ pc' = "pairing"
                      /\ UNCHANGED <<token, callVars>>

\* One fetch of /v1/me by fetchWithRetry of clientMe ends; on a response that
\* is returned, fetchClientMe decodes it.
ClientMeFetch ==
  /\ pc \in {"meExisting", "me"}
  /\ sleeping = 0
  /\ \E o \in FailuresNow \cup MeOutcomes :
       LET r == clientMe_fetchWithRetry(attempt, lastErrorType, o)
           m == IF r.do = "throw"
                THEN [threw |-> TRUE, err |-> r.err, val |-> NoUser]
                ELSE fetchClientMe(o)
       IN  /\ fetches' = fetches + 1
           /\ flaky' = Flaky(o)
           /\ lastErrorType' = r.lastErrorType
           /\ lastOutcome' = OutcomeClass(o)
           /\ IF r.do = "sleep"
              THEN /\ sleeping' = r.delay
                   /\ UNCHANGED <<pc, ret, hist>>
              ELSE /\ sleeping' = 0
                   /\ pc' = IF pc = "me" THEN "meDone" ELSE "meExistingDone"
                   /\ ret' = [call |-> pc, threw |-> m.threw, err |-> m.err, val |-> m.val]
                   /\ hist' = IF ValidProfile(o)
                              THEN [hist EXCEPT !.verified = @ \cup {token}]
                              ELSE hist
  /\ UNCHANGED <<now, env, cred, pairingState, nextKey, token, mem, resumed, attempt,
                 result, banner, serverDates, sleeps, kill, input, output>>

\* The backoff sleep of fetchWithRetry of clientMe ends; the loop goes on.
ClientMeBackoffSleep ==
  /\ pc \in {"meExisting", "me"}
  /\ sleeping > 0
  /\ now' = now + sleeping
  /\ sleeps' = Append(sleeps, sleeping)
  /\ sleeping' = 0
  /\ attempt' = attempt + 1
  /\ UNCHANGED <<pc, env, cred, pairingState, nextKey, token, mem, resumed, lastErrorType,
                 ret, result, banner, serverDates, flaky, lastOutcome, fetches, hist, kill, input, output>>

\* Variant of ExistingTokenChecked without the catch: the error of the
\* verification ends the run.
ExistingTokenChecked_NoCatch ==
  /\ pc = "meExistingDone"
  /\ IF ret.threw
     THEN Exit("error", ret.err, NoUser)
     ELSE Exit("already", NoError, ret.val)
  /\ ret' = NoRet
  /\ UNCHANGED <<now, env, cred, pairingState, nextKey, token, mem, resumed, banner,
                 serverDates, flaky, hist, kill, input, output, callVars>>

\* handleLogin, lines 63-79: the stored credential was checked.
ExistingTokenChecked ==
  /\ pc = "meExistingDone"
  /\ IF ret.threw
     THEN /\ pc' = "pairing"
          /\ UNCHANGED result
     ELSE Exit("already", NoError, ret.val)
  /\ ret' = NoRet
  /\ UNCHANGED <<now, env, cred, pairingState, nextKey, token, mem, resumed, banner,
                 serverDates, flaky, hist, kill, input, output, callVars>>

\* Variant of TokenChecked that saves the token before looking at the
\* outcome of its verification.
TokenChecked_SavesFirst ==
  /\ pc = "meDone"
  /\ cred' = saveToken(cred, env, token)
  /\ hist' = [hist EXCEPT !.tokenSaves = Append(@, token)]
  /\ IF ret.threw
     THEN Exit("error", ret.err, NoUser)
     ELSE Exit("ok", NoError, ret.val)
  /\ ret' = NoRet
  /\ UNCHANGED <<now, env, pairingState, nextKey, token, mem, resumed, banner, serverDates,
                 flaky, kill, input, output, callVars>>

\* handleLogin, lines 90-94: the token was checked; it is saved if valid.
TokenChecked ==
  /\ pc = "meDone"
  /\ IF ret.threw
     THEN /\ Exit("error", ret.err, NoUser)
          /\ UNCHANGED <<cred, hist>>
     ELSE /\ cred' = saveToken(cred, env, token)
          /\ hist' = [hist EXCEPT !.tokenSaves = Append(@, token)]
          /\ Exit("ok", NoError, ret.val)
  /\ ret' = NoRet
  /\ UNCHANGED <<now, env, pairingState, nextKey, token, mem, resumed, banner, serverDates,
                 flaky, kill, input, output, callVars>>

\* ----------------------------------------------- loginWithAppPairing
\* loginWithAppPairing, lines 198-206: what the resumed path gives
\* pollForAppToken, whose deadline is computed at time t.
ResumeOptions(existingState, t) ==
  [appId |-> existingState.appId, publicKey |-> existingState.publicKey,
   secretKey |-> UnB64(existingState.secretKey),
   deadline |-> pollDeadline(existingState.expiresAt, t)]

\* Variant of NewPairingState that encodes the public key as secretKey.
NewPairingState_WrongKey(appId, publicKey, secretKey, initial) ==
  [appId |-> appId, publicKey |-> publicKey, secretKey |-> publicKey,
   requestId |-> initial.requestId, pairingUrl |-> buildPairingUrl(initial.requestId),
   expiresAt |-> initial.expiresAt]

\* Variant of NewPairingState whose pairingUrl is built from the appId.
NewPairingState_UrlFromAppId(appId, publicKey, secretKey, initial) ==
  [appId |-> appId, publicKey |-> publicKey, secretKey |-> B64(secretKey),
   requestId |-> initial.requestId, pairingUrl |-> buildPairingUrl(appId),
   expiresAt |-> initial.expiresAt]

\* loginWithAppPairing, lines 233-242: the PairingState saved on Pending.
NewPairingState(appId, publicKey, secretKey, initial) ==
  [appId |-> appId, publicKey |-> publicKey, secretKey |-> B64(secretKey),
   requestId |-> initial.requestId, pairingUrl |-> buildPairingUrl(initial.requestId),
   expiresAt |-> initial.expiresAt]

\* The catch blocks around pollForAppToken: the resumed path clears the
\* PairingState and rethrows (lines 209-212), the fresh path only rethrows
\* (lines 258-260).
PollFailed(e) ==
  /\ pairingState' = IF resumed THEN clearPairingState(pairingState, env) ELSE pairingState
  /\ Exit("error", e, NoUser)

\* loginWithAppPairing, lines 189-221: the stored PairingState is loaded and
\* either resumed (pollForAppToken computes its deadline) or, when absent or
\* expired, cleared and replaced by a new keypair for the initial request.
LoginWithAppPairingStart ==
  /\ pc = "pairing"
  /\ LET existingState == loadPairingState(pairingState, env)
         s == CHOOSE x \in existingState : TRUE
         h == [hist EXCEPT !.entered = TRUE, !.loaded = existingState, !.loadedAt = now]
     IN  IF existingState # {} /\ ~isExpired(s, now)
         THEN /\ banner' = [status |-> "resumed", url |-> s.pairingUrl]
              /\ resumed' = TRUE
              /\ mem' = ResumeOptions(s, now)
              /\ pc' = "pollLoop"
              /\ hist' = [h EXCEPT !.stateAtPoll = existingState, !.pollFrom = now]
              /\ UNCHANGED <<pairingState, nextKey, callVars>>
         ELSE LET keyPair == generateAppPairingKeyPair(nextKey) IN
              /\ pairingState' = IF existingState # {}
                                 THEN clearPairingState(pairingState, env)
                                 ELSE pairingState
              /\ nextKey' = nextKey + 1
              /\ resumed' = FALSE
              /\ mem' = [appId |-> getDefaultAppId(env), publicKey |-> keyPair.publicKeyBase64,
                         secretKey |-> keyPair.secretKey, deadline |-> 0]
              /\ hist' = [h EXCEPT !.generated = @ \cup {keyPair}, !.calls = Min(@ + 1, MaxCounted),
                                   !.callAt = now,
                                   !.clears = IF existingState # {} THEN @ + 1 ELSE @]
              /\ StartCall("initial")
              /\ UNCHANGED banner
  /\ UNCHANGED <<now, env, cred, token, ret, result, serverDates, flaky, kill, input, output>>

\* One fetch of the pairing endpoint by fetchWithRetry of appPairingRequest
\* ends; on a response that is returned, requestAppPairing decodes it.
PairingFetch ==
  /\ pc \in {"initial", "poll"}
  /\ sleeping = 0
  /\ \E o \in FailuresNow \cup PairingOutcomes(mem.publicKey, now, serverDates) :
       LET r == fetchWithRetry(attempt, lastErrorType, o)
           m == IF r.do = "throw" THEN Thrown(r.err) ELSE requestAppPairing(o)
       IN  /\ fetches' = fetches + 1
           /\ flaky' = Flaky(o)
           /\ lastErrorType' = r.lastErrorType
           /\ lastOutcome' = OutcomeClass(o)
           /\ IF r.do = "sleep"
              THEN /\ sleeping' = r.delay
                   /\ UNCHANGED <<pc, ret>>
              ELSE /\ sleeping' = 0
                   /\ pc' = IF pc = "initial" THEN "initialDone" ELSE "pollDone"
                   /\ ret' = [call |-> pc, threw |-> m.threw, err |-> m.err, val |-> m.val]
  /\ hist' = [hist EXCEPT !.pkSent = @ \cup {mem.publicKey}, !.appIdSent = @ \cup {mem.appId}]
  /\ UNCHANGED <<now, env, cred, pairingState, nextKey, token, mem, resumed, attempt,
                 result, banner, serverDates, sleeps, kill, input, output>>

\* The backoff sleep of fetchWithRetry of appPairingRequest ends.
BackoffSleep ==
  /\ pc \in {"initial", "poll"}
  /\ sleeping > 0
  /\ now' = now + sleeping
  /\ sleeps' = Append(sleeps, sleeping)
  /\ sleeping' = 0
  /\ attempt' = attempt + 1
  /\ UNCHANGED <<pc, env, cred, pairingState, nextKey, token, mem, resumed, lastErrorType,
                 ret, result, banner, serverDates, flaky, lastOutcome, fetches, hist, kill, input, output>>

\* Variant of InitialResult that saves the PairingState before it looks at
\* the status of the answer.
InitialResult_SavesFirst ==
  /\ pc = "initialDone"
  /\ IF ret.threw
     THEN /\ Exit("error", ret.err, NoUser)
          /\ hist' = [hist EXCEPT !.ended = Ended("initial", IF Exhausted THEN "exhausted"
                                                             ELSE "protocol")]
          /\ UNCHANGED <<pairingState, token, mem, banner, callVars>>
     ELSE IF ret.val.status = "completed"
     THEN LET d == decryptAppPairingToken(ret.val.encryptedToken, mem.secretKey) IN
          /\ hist' = [hist EXCEPT !.skUsed = @ \cup {mem.secretKey},
                                  !.payloads = @ \cup {ret.val.encryptedToken},
                                  !.ended = Ended("initial", IF d.ok THEN "completed"
                                                             ELSE "decrypt")]
          /\ IF d.ok
             THEN /\ token' = Trim(d.token)
                  /\ StartCall("me")
                  /\ UNCHANGED result
             ELSE /\ Exit("error", d.err, NoUser)
                  /\ UNCHANGED <<token, callVars>>
          /\ mem' = NoMem
          /\ pairingState' = savePairingState(pairingState, env,
                 NewPairingState(mem.appId, mem.publicKey, mem.secretKey, ret.val))
          /\ UNCHANGED banner
     ELSE IF ret.val.status = "expired"
     THEN /\ Exit("error", Err("Error", "Pairing request expired. Please try again."), NoUser)
          /\ hist' = [hist EXCEPT !.ended = Ended("initial", "expired")]
          /\ UNCHANGED <<pairingState, token, mem, banner, callVars>>
     ELSE LET pairingUrl == buildPairingUrl(ret.val.requestId)
              state == NewPairingState(mem.appId, mem.publicKey, mem.secretKey, ret.val)
          IN  /\ pairingState' = savePairingState(pairingState, env, state)
              /\ banner' = [status |-> IF hist.loaded # {} THEN "reset" ELSE "new",
                            url |-> pairingUrl]
              /\ mem' = [mem EXCEPT !.deadline = pollDeadline(ret.val.expiresAt, now)]
              /\ hist' = [hist EXCEPT !.saved = Append(@, state), !.stateAtPoll = {state},
                                      !.pollFrom = now]
              /\ pc' = "pollLoop"
              /\ UNCHANGED <<token, result, callVars>>
  /\ ret' = NoRet
  /\ UNCHANGED <<now, env, cred, nextKey, resumed, serverDates, flaky, kill, input, output>>

\* loginWithAppPairing, lines 223-246: the initial request ended.
InitialResult ==
  /\ pc = "initialDone"
  /\ IF ret.threw
     THEN /\ Exit("error", ret.err, NoUser)
          /\ hist' = [hist EXCEPT !.ended = Ended("initial", IF Exhausted THEN "exhausted"
                                                             ELSE "protocol")]
          /\ UNCHANGED <<pairingState, token, mem, banner, callVars>>
     ELSE IF ret.val.status = "completed"
     THEN LET d == decryptAppPairingToken(ret.val.encryptedToken, mem.secretKey) IN
          /\ hist' = [hist EXCEPT !.skUsed = @ \cup {mem.secretKey},
                                  !.payloads = @ \cup {ret.val.encryptedToken},
                                  !.ended = Ended("initial", IF d.ok THEN "completed"
                                                             ELSE "decrypt")]
          /\ IF d.ok
             THEN /\ token' = Trim(d.token)
                  /\ StartCall("me")
                  /\ UNCHANGED result
             ELSE /\ Exit("error", d.err, NoUser)
                  /\ UNCHANGED <<token, callVars>>
          /\ mem' = NoMem
          /\ UNCHANGED <<pairingState, banner>>
     ELSE IF ret.val.status = "expired"
     THEN /\ Exit("error", Err("Error", "Pairing request expired. Please try again."), NoUser)
          /\ hist' = [hist EXCEPT !.ended = Ended("initial", "expired")]
          /\ UNCHANGED <<pairingState, token, mem, banner, callVars>>
     ELSE LET pairingUrl == buildPairingUrl(ret.val.requestId)
              state == NewPairingState(mem.appId, mem.publicKey, mem.secretKey, ret.val)
          IN  /\ pairingState' = savePairingState(pairingState, env, state)
              /\ banner' = [status |-> IF hist.loaded # {} THEN "reset" ELSE "new",
                            url |-> pairingUrl]
              /\ mem' = [mem EXCEPT !.deadline = pollDeadline(ret.val.expiresAt, now)]
              /\ hist' = [hist EXCEPT !.saved = Append(@, state), !.stateAtPoll = {state},
                                      !.pollFrom = now]
              /\ pc' = "pollLoop"
              /\ UNCHANGED <<token, result, callVars>>
  /\ ret' = NoRet
  /\ UNCHANGED <<now, env, cred, nextKey, resumed, serverDates, flaky, kill, input, output>>

\* Variant of PollLoop whose loop test is now <= deadline.
PollLoop_Inclusive ==
  /\ pc = "pollLoop"
  /\ IF now <= mem.deadline
     THEN /\ StartCall("poll")
          /\ hist' = [hist EXCEPT !.stateAtCall = pairingState[env], !.callAt = now,
                                  !.calls = Min(@ + 1, MaxCounted)]
          /\ UNCHANGED <<pairingState, result>>
     ELSE /\ PollFailed(Err("Error", "Login timed out. Please try again."))
          /\ hist' = [hist EXCEPT !.clears = IF resumed THEN @ + 1 ELSE @,
                                  !.ended = Ended("poll", "timeout")]
          /\ UNCHANGED callVars
  /\ UNCHANGED <<now, env, cred, nextKey, token, mem, resumed, ret, banner, serverDates,
                 flaky, kill, input, output>>

\* pollForAppToken, lines 277 and 295: the loop test.
PollLoop ==
  /\ pc = "pollLoop"
  /\ IF now < mem.deadline
     THEN /\ StartCall("poll")
          /\ hist' = [hist EXCEPT !.stateAtCall = pairingState[env], !.callAt = now,
                                  !.calls = Min(@ + 1, MaxCounted)]
          /\ UNCHANGED <<pairingState, result>>
     ELSE /\ PollFailed(Err("Error", "Login timed out. Please try again."))
          /\ hist' = [hist EXCEPT !.clears = IF resumed THEN @ + 1 ELSE @,
                                  !.ended = Ended("poll", "timeout")]
          /\ UNCHANGED callVars
  /\ UNCHANGED <<now, env, cred, nextKey, token, mem, resumed, ret, banner, serverDates,
                 flaky, kill, input, output>>

\* pollForAppToken, lines 283-292, and what loginWithAppPairing does with its
\* result (lines 207-211, 256-259).
PollResult ==
  /\ pc = "pollDone"
  /\ IF ret.threw
     THEN /\ PollFailed(ret.err)
          /\ hist' = [hist EXCEPT !.clears = IF resumed THEN @ + 1 ELSE @,
                                  !.ended = Ended("poll", IF Exhausted THEN "exhausted"
                                                          ELSE "protocol")]
          /\ UNCHANGED <<token, mem, callVars>>
     ELSE IF ret.val.status = "completed"
     THEN LET d == decryptAppPairingToken(ret.val.encryptedToken, mem.secretKey) IN
          IF d.ok
          THEN /\ pairingState' = clearPairingState(pairingState, env)
               /\ hist' = [hist EXCEPT !.skUsed = @ \cup {mem.secretKey}, !.clears = @ + 1,
                                       !.payloads = @ \cup {ret.val.encryptedToken},
                                       !.ended = Ended("poll", "completed")]
               /\ token' = Trim(d.token)
               /\ mem' = NoMem
               /\ StartCall("me")
               /\ UNCHANGED result
          ELSE /\ PollFailed(d.err)
               /\ hist' = [hist EXCEPT !.skUsed = @ \cup {mem.secretKey},
                                       !.payloads = @ \cup {ret.val.encryptedToken},
                                       !.clears = IF resumed THEN @ + 1 ELSE @,
                                       !.ended = Ended("poll", "decrypt")]
               /\ UNCHANGED <<token, mem, callVars>>
     ELSE IF ret.val.status = "expired"
     THEN /\ PollFailed(Err("Error", "Pairing request expired. Please try again."))
          /\ hist' = [hist EXCEPT !.clears = IF resumed THEN @ + 1 ELSE @,
                                  !.ended = Ended("poll", "expired")]
          /\ UNCHANGED <<token, mem, callVars>>
     ELSE /\ pc' = "pollSleep"
          /\ sleeping' = intervalMs
          /\ UNCHANGED <<pairingState, token, mem, result, hist, attempt, lastErrorType,
                         lastOutcome, fetches, sleeps>>
  /\ ret' = NoRet
  /\ UNCHANGED <<now, env, cred, nextKey, resumed, banner, serverDates, flaky, kill, input, output>>

\* Variant of PollSleep that goes back to the loop test without sleeping.
PollSleep_Skipped ==
  /\ pc = "pollSleep"
  /\ now' = now
  /\ sleeping' = 0
  /\ pc' = "pollLoop"
  /\ hist' = [hist EXCEPT !.pollSlept = IF hist.calls < MaxCounted THEN @ + (now' - now) ELSE @]
  /\ UNCHANGED <<env, cred, pairingState, nextKey, token, mem, resumed, attempt,
                 lastErrorType, ret, result, banner, serverDates, flaky, lastOutcome,
                 fetches, sleeps, kill, input, output>>

\* pollForAppToken, line 293: the sleep between two polls ends.
PollSleep ==
  /\ pc = "pollSleep"
  /\ now' = now + sleeping
  /\ sleeping' = 0
  /\ pc' = "pollLoop"
  /\ hist' = [hist EXCEPT !.pollSlept = IF hist.calls < MaxCounted THEN @ + (now' - now) ELSE @]
  /\ UNCHANGED <<env, cred, pairingState, nextKey, token, mem, resumed, attempt,
                 lastErrorType, ret, result, banner, serverDates, flaky, lastOutcome,
                 fetches, sleeps, kill, input, output>>

\* SIGINT: no handler is installed, so the process dies where it waits: on a
\* fetch in flight, in a backoff sleep, or in the sleep between two polls.
Cancel ==
  /\ pc \in {"meExisting", "initial", "poll", "pollSleep", "me"}
  /\ kill' = [at |-> pc,
              phase |-> IF pc = "pollSleep" THEN "pollSleep"
                        ELSE IF sleeping > 0 THEN "backoff" ELSE "fetch"]
  /\ pc' = "killed"
  /\ UNCHANGED <<now, env, cred, pairingState, nextKey, token, mem, resumed, attempt,
                 lastErrorType, sleeping, ret, result, banner, serverDates, flaky,
                 lastOutcome, fetches, sleeps, hist, input,
                 output>>

Next ==
  \/ \E mode \in {"none", "token", "stdin", "both"}, arg \in TokenArgs :
        HandleLoginStart(mode, arg)
  \/ ClientMeFetch
  \/ ClientMeBackoffSleep
  \/ ExistingTokenChecked
  \/ TokenChecked
  \/ LoginWithAppPairingStart
  \/ PairingFetch
  \/ BackoffSleep
  \/ InitialResult
  \/ PollLoop
  \/ PollResult
  \/ PollSleep
  \/ Cancel

Spec == Init /\ [][Next]_vars

\* A run against a server whose expiresAt is unparsable or the epoch, with
\* no PairingState stored or one whose expiresAt is unparsable: the runs in
\* which pollForAppToken falls back to a deadline of its own. Every fetch of
\* these runs gets a response that is no 5xx.
InitFallback ==
  /\ InitProcess
  /\ flaky = MaxFlaky
  /\ env = "prod"
  /\ \E t \in {<<>>, TokOld} : cred = [e \in Environment |-> IF e = env THEN t ELSE <<>>]
  /\ \E st \in {{}, {StoredState(env, GarbageDate)}} :
       pairingState = [e \in Environment |-> IF e = env THEN st ELSE {}]
  /\ serverDates = {"garbage", "epoch"}

\* The steps of a run in which no fetch fails: no backoff sleep is taken.
NextReliable ==
  \/ \E mode \in {"none", "token", "stdin", "both"}, arg \in TokenArgs :
        HandleLoginStart(mode, arg)
  \/ ClientMeFetch
  \/ ExistingTokenChecked
  \/ TokenChecked
  \/ LoginWithAppPairingStart
  \/ PairingFetch
  \/ InitialResult
  \/ PollLoop
  \/ PollResult
  \/ PollSleep
  \/ Cancel

\* Every transport call returns and time advances: a step that can be taken
\* is eventually taken.
FallbackSpec == InitFallback /\ [][NextReliable]_vars /\ WF_vars(NextReliable)

\* ------------------------------------------- requestAppPairing alone
EmptyStore == [e \in Environment |-> <<>>]
NoStates == [e \in Environment |-> {}]

\* The JSON value of field f of a response body.
BodyValue(f, okv, st, ex, res, ns) ==
  IF f = "ok" THEN okv
  ELSE IF f = "status" THEN st
  ELSE IF f = "requestId" THEN "r1"
  ELSE IF f = "expiresAt" THEN ex
  ELSE IF f = "result" THEN res
  ELSE ns

\* The bodies of a 2xx response: unparsable JSON, or an object with any of
\* the fields ok, status, requestId, expiresAt and result, each string field
\* possibly of another JSON type, result with or without a string
\* encryptedToken.
DecodeBodies ==
  {NullBody} \cup
  { [f \in S \cup (IF ns = {} THEN {} ELSE {"nonString"}) |-> BodyValue(f, okv, st, ex, res, ns)] :
      S \in SUBSET {"ok", "status", "requestId", "expiresAt", "result"},
      okv \in BOOLEAN,
      st \in {"pending", "completed", "expired", "paused"},
      ex \in {IsoString(Epoch + PairTTL), GarbageDate},
      res \in {[encryptedToken |-> B64(0)],
               [encryptedToken |-> B64(0), nonString |-> {"encryptedToken"}],
               NullBody},
      ns \in SUBSET {"status", "requestId", "expiresAt"} }

InitDecode ==
  /\ InitLocals
  /\ pc = "decode"
  /\ env = "prod"
  /\ cred = EmptyStore
  /\ pairingState = NoStates
  /\ serverDates = {"iso"}
  /\ flaky = 0
  /\ \E status \in {200, 204}, body \in DecodeBodies :
       input = [fn |-> "requestAppPairing", response |-> Response(status, body)]
  /\ output = NoOutput

\* requestAppPairing, whose first fetch gets the response of the input.
RequestAppPairingCall ==
  /\ pc = "decode"
  /\ LET o == input.response
         r == fetchWithRetry(1, "null", o)
     IN  output' = [fn |-> "requestAppPairing", fetches |-> 1, retry |-> r.do = "sleep",
                    ret |-> IF r.do = "throw" THEN Thrown(r.err) ELSE requestAppPairing(o)]
  /\ pc' = "decoded"
  /\ UNCHANGED <<now, env, cred, pairingState, nextKey, token, mem, resumed, attempt,
                 lastErrorType, sleeping, ret, result, banner, serverDates, flaky,
                 lastOutcome, fetches, sleeps, hist, kill, input>>

DecodeSpec == InitDecode /\ [][RequestAppPairingCall]_vars

\* -------------------------------------- decryptAppPairingToken alone
\* What the app sends for text: version 1, the nonce, the sender's public
\* key and the box sealed for recipientPub, 1 + 24 + 32 + 16 bytes longer
\* than the text.
SealedPayload(text, nonce, senderKey, recipientPub) ==
  [len |-> 1 + 24 + 32 + 16 + Len(text), version |-> 1, nonce |-> nonce,
   epk |-> PubKey(senderKey), ct |-> BoxSeal(text, nonce, recipientPub, SecKey(senderKey))]

\* A sealed payload as it is, or with one part changed: another version
\* byte, truncated, another nonce, another sender key, or a ciphertext that
\* authenticates under no key.
Tampered(p) ==
  {p, [p EXCEPT !.version = 0], [p EXCEPT !.version = 2], [p EXCEPT !.len = 72],
   [p EXCEPT !.len = 0], [p EXCEPT !.nonce = 9], [p EXCEPT !.epk = PubKey(5)],
   [p EXCEPT !.ct = JunkBox], [p EXCEPT !.len = 72, !.version = 2]}

DecryptTexts == Plaintexts \cup {<<>>, TokA}

InitDecrypt ==
  /\ InitLocals
  /\ pc = "decrypt"
  /\ env = "prod"
  /\ cred = EmptyStore
  /\ pairingState = NoStates
  /\ serverDates = {"iso"}
  /\ flaky = 0
  /\ \E text \in DecryptTexts, nonce \in {7, 8}, senderKey \in {0, 3}, to \in {1, 2},
        key \in {1, 2} :
       \E p \in Tampered(SealedPayload(text, nonce, senderKey, PubKey(to))) :
         input = [fn |-> "decryptAppPairingToken", encryptedTokenBase64 |-> B64(p),
                  secretKey |-> SecKey(key)]
  /\ output = NoOutput

\* decryptAppPairingToken is applied to the input.
DecryptCall ==
  /\ pc = "decrypt"
  /\ output' = [fn |-> "decryptAppPairingToken",
                ret |-> decryptAppPairingToken(input.encryptedTokenBase64, input.secretKey)]
  /\ pc' = "decrypted"
  /\ UNCHANGED <<now, env, cred, pairingState, nextKey, token, mem, resumed, attempt,
                 lastErrorType, sleeping, ret, result, banner, serverDates, flaky,
                 lastOutcome, fetches, sleeps, hist, kill, input>>

DecryptSpec == InitDecrypt /\ [][DecryptCall]_vars

\* -------------------------------------------------- bee auth status
Stars == <<"*", "*", "*", "*", "*", "*", "*", "*">>
Dots == <<".", ".", ".">>

\* trimmed.slice(0, n) and trimmed.slice(-n), for n <= trimmed.length
SliceFirst(s, n) == SubSeq(s, 1, n)
SliceLast(s, n) == SubSeq(s, Len(s) - n + 1, Len(s))

\* Variant of maskToken without the test for short tokens.
maskToken_NoShortCheck(tok) ==
  LET trimmed == Trim(tok) IN
  SliceFirst(trimmed, Min(4, Len(trimmed))) \o Dots \o SliceLast(trimmed, Min(4, Len(trimmed)))

\* Variant of maskToken that ends with the last three characters.
maskToken_LastThree(tok) ==
  LET trimmed == Trim(tok) IN
  IF Len(trimmed) <= 8 THEN Stars
  ELSE SliceFirst(trimmed, 4) \o Dots \o SliceLast(trimmed, 3)

maskToken(tok) ==
  LET trimmed == Trim(tok) IN
  IF Len(trimmed) <= 8 THEN Stars
  ELSE SliceFirst(trimmed, 4) \o Dots \o SliceLast(trimmed, 4)

\* fetchDeveloperMe after context.client.fetch ended in o: a fetch that
\* throws is not caught.
fetchDeveloperMe(o) ==
  LET data == o.body IN
  IF o.kind = "throw"
  THEN [threw |-> TRUE, err |-> Err("TypeError", "fetch failed"), val |-> NoUser]
  ELSE IF ~ResponseOk(o)
  THEN IF IsString(data, "error")
       THEN [threw |-> TRUE, err |-> Err("Error", data.error), val |-> NoUser]
       ELSE [threw |-> TRUE, err |-> StatusErr(o.status), val |-> NoUser]
  ELSE IF ~Has(data, "id") \/ ~IsString(data, "first_name")
  THEN [threw |-> TRUE, err |-> Err("Error", "Invalid response from developer API."),
        val |-> NoUser]
  ELSE [threw |-> FALSE, err |-> NoError,
        val |-> [id |-> data.id, first_name |-> data.first_name,
                 last_name |-> IF IsString(data, "last_name") THEN data.last_name ELSE ""]]

\* The credential of the end-to-end example, and the credentials cut from it.
TokExample == <<"t", "o", "k", "_", "a", "b", "c", "1", "2", "3">>
StatusTokens ==
  {SubSeq(TokExample, i, j) : i \in 1..Len(TokExample), j \in 1..Len(TokExample)} \ {<<>>}

InitStatus ==
  /\ InitLocals
  /\ pc = "status"
  /\ env \in Environment
  /\ \E t \in StatusTokens \cup {<<>>} : cred = saveToken(EmptyStore, "prod", t)
  /\ pairingState = NoStates
  /\ serverDates = {"iso"}
  /\ flaky = 0
  /\ \E n \in 0..1 : input = [fn |-> "handleStatus", args |-> n]
  /\ output = NoOutput

\* handleStatus; o is how the fetch of fetchDeveloperMe ends.
HandleStatus ==
  /\ pc = "status"
  /\ \E o \in MeOutcomes \cup {Threw} :
       LET tok == loadToken(cred, env)
           me  == fetchDeveloperMe(o)
           api == Line("api", <<env>>)
       IN  output' =
             IF input.args > 0
             THEN [fn |-> "handleStatus", lines |-> <<>>,
                   err |-> Err("Error", "status does not accept arguments.")]
             ELSE IF tok = <<>>
             THEN [fn |-> "handleStatus", lines |-> <<Line("not logged in", <<>>), api>>,
                   err |-> NoError]
             ELSE IF me.threw
             THEN [fn |-> "handleStatus", lines |-> <<api, Line("token", maskToken(tok))>>,
                   err |-> me.err]
             ELSE [fn |-> "handleStatus",
                   lines |-> <<api, Line("token", maskToken(tok)),
                               Line("verified", <<me.val.first_name, me.val.last_name>>)>>,
                   err |-> NoError]
  /\ pc' = "statusDone"
  /\ UNCHANGED <<now, env, cred, pairingState, nextKey, token, mem, resumed, attempt,
                 lastErrorType, sleeping, ret, result, banner, serverDates, flaky,
                 lastOutcome, fetches, sleeps, hist, kill, input>>

StatusSpec == InitStatus /\ [][HandleStatus]_vars

\* ------------------------------------- the two retry loops, side by side
\* A fetchWithRetry call: its loop counter and lastErrorType, the sleep in
\* progress, the fetches issued and the delays slept so far, and how it
\* ended.
NoResponse == Response(0, NullBody)
LoopStart ==
  [attempt |-> 1, lastErrorType |-> "null", sleeping |-> 0, fetches |-> 0, sleeps |-> <<>>,
   done |-> FALSE, threw |-> FALSE, err |-> NoError, response |-> NoResponse]

\* The loop l, if it is about to fetch, gets o from fetch; r is what its
\* iteration makes of o.
LoopFetch(l, r, o) ==
  IF l.done \/ l.sleeping > 0 THEN l
  ELSE [l EXCEPT !.fetches = @ + 1,
                 !.lastErrorType = r.lastErrorType,
                 !.sleeping = IF r.do = "sleep" THEN r.delay ELSE 0,
                 !.done = r.do # "sleep",
                 !.threw = r.do = "throw",
                 !.err = r.err,
                 !.response = IF r.do = "return" THEN o ELSE @]

\* The backoff sleep of loop l, if it is in one, ends.
LoopSleep(l) ==
  IF l.sleeping = 0 THEN l
  ELSE [l EXCEPT !.sleeps = Append(@, l.sleeping), !.sleeping = 0, !.attempt = @ + 1]

\* What one fetch may end in: a thrown error, or a response whose status
\* is inside or just outside 500..599.
RetryOutcomes ==
  {Threw} \cup {Response(st, NullBody) : st \in {200, 499, 500, 599, 600}}

InitRetry ==
  /\ InitLocals
  /\ pc = "retry"
  /\ env = "prod"
  /\ cred = EmptyStore
  /\ pairingState = NoStates
  /\ serverDates = {"iso"}
  /\ flaky = 0
  /\ input = [fn |-> "fetchWithRetry", outcomes |-> <<>>]
  /\ output = [fn |-> "fetchWithRetry", pairing |-> LoopStart, clientMe |-> LoopStart]

\* The next fetch ends in o for each loop that issued it.
RetryFetch ==
  /\ pc = "retry"
  /\ \E l \in {output.pairing, output.clientMe} : ~l.done /\ l.sleeping = 0
  /\ \E o \in RetryOutcomes :
       LET p == output.pairing
           c == output.clientMe
           a == LoopFetch(p, fetchWithRetry(p.attempt, p.lastErrorType, o), o)
           b == LoopFetch(c, clientMe_fetchWithRetry(c.attempt, c.lastErrorType, o), o)
       IN  /\ input' = [input EXCEPT !.outcomes = Append(@, o)]
           /\ output' = [output EXCEPT !.pairing = a, !.clientMe = b]
           /\ pc' = IF a.done /\ b.done THEN "retried" ELSE pc
  /\ UNCHANGED <<now, env, cred, pairingState, nextKey, token, mem, resumed, attempt,
                 lastErrorType, sleeping, ret, result, banner, serverDates, flaky,
                 lastOutcome, fetches, sleeps, hist, kill>>

\* The backoff sleeps in progress end.
RetryBackoff ==
  /\ pc = "retry"
  /\ \E l \in {output.pairing, output.clientMe} : l.sleeping > 0
  /\ output' = [output EXCEPT !.pairing = LoopSleep(@), !.clientMe = LoopSleep(@)]
  /\ UNCHANGED <<pc, now, env, cred, pairingState, nextKey, token, mem, resumed, attempt,
                 lastErrorType, sleeping, ret, result, banner, serverDates, flaky,
                 lastOutcome, fetches, sleeps, hist, kill, input>>

RetrySpec == InitRetry /\ [][RetryFetch \/ RetryBackoff]_vars

\* ------------------------- bee auth login: the candidate base URLs
\* A URL is the sequence of its pieces, cut where the code looks at it.
ENVIRONMENTS ==
  [prod    |-> [label |-> "production",
                apiUrl |-> <<"https://", "app-api", "-", "developer.", "ce.bee.amazon.dev", "/">>],
   staging |-> [label |-> "staging",
                apiUrl |-> <<"https://", "developer.", "ce.korshaks.people.amazon.dev", "/">>]]

getEnvironmentConfig(e) == ENVIRONMENTS[e]

\* String.prototype.includes and the one-occurrence String.prototype.replace
Occurrences(s, pat) ==
  {i \in 1..(Len(s) - Len(pat) + 1) : SubSeq(s, i, i + Len(pat) - 1) = pat}
Includes(s, pat) == Occurrences(s, pat) # {}
Replace(s, pat, rep) ==
  IF ~Includes(s, pat) THEN s
  ELSE LET i == CHOOSE k \in Occurrences(s, pat) : \A m \in Occurrences(s, pat) : k <= m
       IN  SubSeq(s, 1, i - 1) \o rep \o SubSeq(s, i + Len(pat), Len(s))

normalizeBaseUrl(url) == IF url # <<>> /\ url[Len(url)] = "/" THEN url ELSE url \o <<"/">>

\* derivePairingApiUrl: the derived URL, or the empty sequence for null.
derivePairingApiUrl(apiUrl) ==
  IF apiUrl = <<>> THEN <<>>
  ELSE IF Includes(apiUrl, <<"app-api", "-", "developer.">>)
  THEN normalizeBaseUrl(Replace(apiUrl, <<"app-api", "-", "developer.">>, <<"app-api", ".">>))
  ELSE IF Includes(apiUrl, <<"developer.">>)
  THEN normalizeBaseUrl(Replace(apiUrl, <<"developer.">>, <<"api.">>))
  ELSE IF Includes(apiUrl, <<"-", "developer.">>)
  THEN normalizeBaseUrl(Replace(apiUrl, <<"-", "developer.">>, <<".">>))
  ELSE <<>>

\* getPairingApiCandidates; override is BEE_PAIRING_API_URL trimmed, empty
\* when unset.  The Set keeps a URL once, in insertion order.
getPairingApiCandidates(e, override) ==
  IF override # <<>> THEN <<normalizeBaseUrl(override)>>
  ELSE LET config == getEnvironmentConfig(e)
           derived == derivePairingApiUrl(config.apiUrl)
           base == normalizeBaseUrl(config.apiUrl)
       IN  IF derived = <<>> \/ derived = base THEN <<base>> ELSE <<derived, base>>

NotFoundError == Err("PairingEndpointNotFoundError", "Pairing endpoint not found.")

\* Variant of requestAppPairingWithBase that takes every 404 for a missing
\* endpoint.
requestAppPairingWithBase_Any404(o) ==
  LET data == o.body IN
  IF o.kind = "throw" THEN Thrown(Err("TypeError", "fetch failed"))
  ELSE IF ~ResponseOk(o)
  THEN IF o.status = 404
       THEN Thrown(NotFoundError)
       ELSE IF IsString(data, "error")
            THEN Thrown(Err("Error", data.error))
            ELSE Thrown(StatusErr(o.status))
  ELSE requestAppPairing(o)

\* requestAppPairingWithBase after the fetch of fetchPairing ended in o; the
\* fetch is not retried, and a 2xx body is decoded as in appPairingRequest.
requestAppPairingWithBase(o) ==
  LET data == o.body IN
  IF o.kind = "throw" THEN Thrown(Err("TypeError", "fetch failed"))
  ELSE IF ~ResponseOk(o)
  THEN IF o.status = 404 /\ (~IsString(data, "error") \/ data.error \in {"", "Not Found"})
       THEN Thrown(NotFoundError)
       ELSE IF IsString(data, "error")
            THEN Thrown(Err("Error", data.error))
            ELSE Thrown(StatusErr(o.status))
  ELSE IF ~(Has(data, "ok") /\ data.ok = TRUE) THEN InvalidResponse
  ELSE IF IsString(data, "status") /\ data.status = "pending"
  THEN IF ~IsString(data, "requestId") \/ ~IsString(data, "expiresAt") THEN InvalidResponse
       ELSE Returned([NoPairing EXCEPT !.status = "pending", !.requestId = data.requestId,
                                       !.expiresAt = data.expiresAt])
  ELSE IF IsString(data, "status") /\ data.status = "completed"
  THEN IF \/ ~IsString(data, "requestId")
          \/ ~Has(data, "result")
          \/ ~IsString(data.result, "encryptedToken")
       THEN InvalidResponse
       ELSE Returned([NoPairing EXCEPT !.status = "completed", !.requestId = data.requestId,
                                       !.encryptedToken = data.result.encryptedToken])
  ELSE IF IsString(data, "status") /\ data.status = "expired"
  THEN IF ~IsString(data, "requestId") THEN InvalidResponse
       ELSE Returned([NoPairing EXCEPT !.status = "expired", !.requestId = data.requestId])
  ELSE InvalidResponse

\* What one fetch of the pairing endpoint may end in at time t.
CandidateOutcomes(publicKey, t) ==
  {Threw,
   Response(503, NullBody),
   Response(404, NullBody),
   Response(404, [error |-> "Not Found"]),
   Response(404, [error |-> ""]),
   Response(404, [error |-> "Not Found", nonString |-> {"error"}]),
   Response(404, [error |-> "request_not_found"]),
   Response(400, [error |-> "invalid_app"]),
   Response(200, NullBody),
   Response(200, [ok |-> TRUE, status |-> "pending", requestId |-> "r1",
                  expiresAt |-> IsoString(t + PairTTL)]),
   Response(200, [ok |-> TRUE, status |-> "expired", requestId |-> "r1"]),
   Response(200, [ok |-> TRUE, status |-> "completed", requestId |-> "r1",
                  result |-> [encryptedToken |-> Packed(72, 1, JunkBox)]]),
   Response(200, [ok |-> TRUE, status |-> "completed", requestId |-> "r1",
                  result |-> [encryptedToken |->
                    Packed(57 + 16 + Len(TokNew), 1,
                           BoxSeal(TokNew, 7, UnB64(publicKey), SecKey(AppKey)))]])}

\* The progress of loginWithAppPairing: the candidates, the outcome each
\* candidate tried gave and what it was taken for, the base URL and the
\* result returned by requestAppPairing, the base URLs polled, where the
\* function failed, and the token returned.
NoProgress ==
  [fn |-> "loginWithAppPairing", candidates |-> <<>>, tried |-> <<>>, baseUrl |-> <<>>,
   initial |-> NoPairing, polled |-> {}, failedIn |-> "none", err |-> NoError, token |-> <<>>]

InitAuth ==
  /\ InitLocals
  /\ pc = "authIdle"
  /\ env \in Environment
  /\ cred = EmptyStore
  /\ pairingState = NoStates
  /\ serverDates = {"iso"}
  /\ flaky = 0
  /\ \E tty \in BOOLEAN,
        override \in {<<>>, <<"https://", "pairing.test">>, <<"https://", "pairing.test", "/">>} :
       input = [fn |-> "loginWithAppPairing", isTTY |-> tty, override |-> override]
  /\ output = NoProgress

\* What loginWithAppPairing, its progress being out, ends in when
\* requestAppPairingWithBase returned the Completed or Expired result v,
\* in the initial request or in a poll.
AuthEnd(in, v, out) ==
  IF v.status = "completed"
  THEN LET d == decryptAppPairingToken(v.encryptedToken, mem.secretKey) IN
       IF d.ok THEN [out EXCEPT !.token = d.token]
       ELSE [out EXCEPT !.failedIn = "decrypt", !.err = d.err]
  ELSE [out EXCEPT !.failedIn = in,
                   !.err = Err("Error", "Pairing request expired. Please try again.")]

\* loginWithAppPairing up to its first request: the TTY test, the keypair
\* and the candidates of requestAppPairing.
AuthLoginStart ==
  /\ pc = "authIdle"
  /\ IF ~input.isTTY
     THEN /\ pc' = "authDone"
          /\ output' = [output EXCEPT !.failedIn = "tty",
                          !.err = Err("Error", "Interactive login requires a TTY. Use --token or --token-stdin.")]
          /\ UNCHANGED <<mem, nextKey>>
     ELSE LET keyPair == generateAppPairingKeyPair(nextKey) IN
          /\ pc' = "authRequest"
          /\ mem' = [appId |-> getDefaultAppId(env), publicKey |-> keyPair.publicKeyBase64,
                     secretKey |-> keyPair.secretKey, deadline |-> 0]
          /\ nextKey' = nextKey + 1
          /\ output' = [output EXCEPT !.candidates = getPairingApiCandidates(env, input.override)]
  /\ UNCHANGED <<now, env, cred, pairingState, token, resumed, attempt, lastErrorType,
                 sleeping, ret, result, banner, serverDates, flaky, lastOutcome, fetches,
                 sleeps, hist, kill, input>>

\* One iteration of the for loop of requestAppPairing, and what
\* loginWithAppPairing does with its result.
RequestAppPairingCandidate ==
  /\ pc = "authRequest"
  /\ \E o \in CandidateOutcomes(mem.publicKey, now) :
       LET baseUrl == output.candidates[Len(output.tried) + 1]
           r == requestAppPairingWithBase(o)
           tried == Append(output.tried, [baseUrl |-> baseUrl, outcome |-> o, err |-> r.err])
       IN  IF r.threw /\ r.err.class = "PairingEndpointNotFoundError"
           THEN IF Len(tried) < Len(output.candidates)
                THEN /\ output' = [output EXCEPT !.tried = tried]
                     /\ UNCHANGED <<pc, mem>>
                ELSE /\ pc' = "authDone"
                     /\ output' = [output EXCEPT !.tried = tried, !.failedIn = "candidates",
                                                 !.err = r.err]
                     /\ UNCHANGED mem
           ELSE IF r.threw
           THEN /\ pc' = "authDone"
                /\ output' = [output EXCEPT !.tried = tried, !.failedIn = "candidates",
                                            !.err = r.err]
                /\ UNCHANGED mem
           ELSE IF r.val.status = "pending"
           THEN /\ pc' = "authPoll"
                /\ output' = [output EXCEPT !.tried = tried, !.baseUrl = baseUrl,
                                            !.initial = r.val]
                /\ mem' = [mem EXCEPT !.deadline = pollDeadline(r.val.expiresAt, now)]
           ELSE /\ pc' = "authDone"
                /\ output' = AuthEnd("initial", r.val,
                                     [output EXCEPT !.tried = tried, !.baseUrl = baseUrl,
                                                    !.initial = r.val])
                /\ UNCHANGED mem
  /\ UNCHANGED <<now, env, cred, pairingState, nextKey, token, resumed, attempt,
                 lastErrorType, sleeping, ret, result, banner, serverDates, flaky,
                 lastOutcome, fetches, sleeps, hist, kill, input>>

\* pollForAppToken: the loop test and, before the deadline, one request to
\* opts.baseUrl and what follows from its result.
AuthPollForAppToken ==
  /\ pc = "authPoll"
  /\ IF now < mem.deadline
     THEN \E o \in CandidateOutcomes(mem.publicKey, now) :
            LET r == requestAppPairingWithBase(o)
                out == [output EXCEPT !.polled = @ \cup {output.baseUrl}]
            IN  IF r.threw
                THEN /\ pc' = "authDone"
                     /\ output' = [out EXCEPT !.failedIn = "poll", !.err = r.err]
                ELSE IF r.val.status = "pending"
                THEN /\ pc' = "authSleep"
                     /\ output' = out
                ELSE /\ pc' = "authDone"
                     /\ output' = AuthEnd("poll", r.val, out)
     ELSE /\ pc' = "authDone"
          /\ output' = [output EXCEPT !.failedIn = "poll",
                                      !.err = Err("Error", "Login timed out. Please try again.")]
  /\ UNCHANGED <<now, env, cred, pairingState, nextKey, token, mem, resumed, attempt,
                 lastErrorType, sleeping, ret, result, banner, serverDates, flaky,
                 lastOutcome, fetches, sleeps, hist, kill, input>>

\* pollForAppToken: the sleep between two polls.
AuthPollSleep ==
  /\ pc = "authSleep"
  /\ now' = now + intervalMs
  /\ pc' = "authPoll"
  /\ UNCHANGED <<env, cred, pairingState, nextKey, token, mem, resumed, attempt,
                 lastErrorType, sleeping, ret, result, banner, serverDates, flaky,
                 lastOutcome, fetches, sleeps, hist, kill, input, output>>

AuthSpec ==
  InitAuth /\ [][AuthLoginStart \/ RequestAppPairingCandidate \/ AuthPollForAppToken
                  \/ AuthPollSleep]_vars

\* ------------------------------------------ sync: runWithConcurrency
\* Math.max
Max(a, b) == IF a >= b THEN a ELSE b

\* The runners and worker calls of one runWithConcurrency(items, limit,
\* worker) call, n being items.length: the shared index, where each runner
\* stands and the item it took, how often worker was called with each
\* index, the indices whose worker call has settled, whether a worker call
\* was rejected, and how the promise returned was settled.
Runners == 1..CONVERSATION_CONCURRENCY
Indices == 0..(MaxItems + CONVERSATION_CONCURRENCY)
NoRunner == [at |-> "none", current |-> 0]
NoCalls ==
  [fn |-> "runWithConcurrency", concurrency |-> 0, index |-> 0,
   runner |-> [r \in Runners |-> NoRunner], calls |-> [i \in Indices |-> 0],
   finished |-> {}, rejected |-> FALSE, settled |-> "pending"]

\* Variant of TakeNext that leaves the loop only when current > items.length.
TakeNext_OffByOne(st, r, n) ==
  LET current == st.index IN
  IF current > n
  THEN [st EXCEPT !.index = @ + 1, !.runner[r] = [at |-> "done", current |-> 0]]
  ELSE [st EXCEPT !.index = @ + 1, !.runner[r] = [at |-> "await", current |-> current],
                  !.calls[current] = @ + 1]

\* One turn of the while loop of runner r: it takes the index and, inside
\* the list, calls worker and awaits it.
TakeNext(st, r, n) ==
  LET current == st.index IN
  IF current >= n
  THEN [st EXCEPT !.index = @ + 1, !.runner[r] = [at |-> "done", current |-> 0]]
  ELSE [st EXCEPT !.index = @ + 1, !.runner[r] = [at |-> "await", current |-> current],
                  !.calls[current] = @ + 1]

\* Array.from({ length: concurrency }, ...): runners r..concurrency run, one
\* after the other, up to their first await.
RECURSIVE StartRunners(_, _, _)
StartRunners(st, r, n) ==
  IF r > st.concurrency THEN st ELSE StartRunners(TakeNext(st, r, n), r + 1, n)

\* Promise.all(runners): rejected with the first runner that is, resolved
\* when every runner has returned.
PromiseAll(st) ==
  IF st.settled # "pending" THEN st
  ELSE IF \E r \in 1..st.concurrency : st.runner[r].at = "failed"
  THEN [st EXCEPT !.settled = "rejected"]
  ELSE IF \A r \in 1..st.concurrency : st.runner[r].at = "done"
  THEN [st EXCEPT !.settled = "resolved"]
  ELSE st

InFlight(st) == {r \in Runners : st.runner[r].at = "await"}

InitSync ==
  /\ InitLocals
  /\ pc = "sync"
  /\ env = "prod"
  /\ cred = EmptyStore
  /\ pairingState = NoStates
  /\ serverDates = {"iso"}
  /\ flaky = 0
  /\ \E n \in 0..MaxItems :
       input = [fn |-> "runWithConcurrency", items |-> n, limit |-> CONVERSATION_CONCURRENCY]
  /\ output = NoCalls

\* runWithConcurrency up to await Promise.all(runners).
RunWithConcurrencyStart ==
  /\ pc = "sync"
  /\ IF input.items = 0
     THEN /\ output' = [output EXCEPT !.settled = "resolved"]
          /\ pc' = "syncEnded"
     ELSE LET concurrency == Max(1, Min(input.limit, input.items))
              st == StartRunners([output EXCEPT !.concurrency = concurrency], 1, input.items)
          IN  /\ output' = PromiseAll(st)
              /\ pc' = IF InFlight(st) = {} THEN "syncEnded" ELSE "syncRunning"
  /\ UNCHANGED <<now, env, cred, pairingState, nextKey, token, mem, resumed, attempt,
                 lastErrorType, sleeping, ret, result, banner, serverDates, flaky,
                 lastOutcome, fetches, sleeps, hist, kill, input>>

\* The worker call that runner r awaits is fulfilled or rejected; a runner
\* whose worker call is rejected throws out of its loop.
WorkerSettled(r, ok) ==
  /\ pc = "syncRunning"
  /\ output.runner[r].at = "await"
  /\ LET st0 == [output EXCEPT !.finished = @ \cup {output.runner[r].current},
                               !.rejected = @ \/ ~ok]
         st == IF ok THEN TakeNext(st0, r, input.items)
               ELSE [st0 EXCEPT !.runner[r] = [at |-> "failed", current |-> 0]]
     IN  /\ output' = PromiseAll(st)
         /\ pc' = IF InFlight(st) = {} THEN "syncEnded" ELSE "syncRunning"
  /\ UNCHANGED <<now, env, cred, pairingState, nextKey, token, mem, resumed, attempt,
                 lastErrorType, sleeping, ret, result, banner, serverDates, flaky,
                 lastOutcome, fetches, sleeps, hist, kill, input>>

SyncSpec ==
  InitSync /\ [][RunWithConcurrencyStart
                  \/ \E r \in Runners, ok \in BOOLEAN : WorkerSettled(r, ok)]_vars

\* ============================================================ claims
CallPcs == {"initial", "poll"}
DonePcs == {"initialDone", "pollDone"}
PollingPcs == {"pollLoop", "poll", "pollDone", "pollSleep"}
RetryKinds == {"network", "server"}

\* The stored state s had expired when loginWithAppPairing loaded it.
ExpiredAtLoad(s) ==
  /\ s.expiresAt.iso
  /\ s.expiresAt.ms <= hist.loadedAt

\* C1: a token is saved only after the identity endpoint returned a valid
\* profile for that very token in this run, the save is the only change of
\* the credential store, and a run that fails saves nothing and leaves the
\* stored credentials as they were.
C1_SaveOnlyVerified ==
  /\ \A i \in DOMAIN hist.tokenSaves : hist.tokenSaves[i] \in hist.verified
  /\ pc # "idle" =>
       \/ hist.tokenSaves = <<>> /\ cred = hist.credAtStart
       \/ /\ Len(hist.tokenSaves) = 1
          /\ cred = [hist.credAtStart EXCEPT ![env] = hist.tokenSaves[1]]
          /\ result.status = "ok"
  /\ (pc = "exit" /\ result.status = "error") => cred = hist.credAtStart

\* C1 witness: a run that paired replaced the old credential by the token
\* the identity endpoint accepted.
C1_Witness ==
  /\ pc = "exit"
  /\ result.status = "ok"
  /\ hist.credAtStart[env] = TokOld
  /\ cred[env] = TokNew
  /\ hist.saved # <<>>

\* C2: a SIGINT during polling (a fetch in flight, a backoff sleep or the
\* sleep between polls) leaves the credentials untouched and the
\* PairingState stored exactly as it was when polling began, holding the
\* appId, keys and pairing URL of the attempt; and a run that finds such a
\* state unexpired polls with exactly these.
C2_CancelKeepsState ==
  /\ (pc = "killed" /\ kill.at \in {"poll", "pollSleep"}) =>
       /\ hist.tokenSaves = <<>>
       /\ cred = hist.credAtStart
       /\ pairingState[env] # {}
       /\ pairingState[env] = hist.stateAtPoll
       /\ resumed => pairingState[env] = hist.loaded
       /\ ~resumed => pairingState[env] = {hist.saved[Len(hist.saved)]}
       /\ \A s \in pairingState[env] :
            /\ s.appId = mem.appId
            /\ s.publicKey = mem.publicKey
            /\ UnB64(s.secretKey) = mem.secretKey
            /\ s.pairingUrl = banner.url
  /\ (resumed /\ pc \in PollingPcs) =>
       \A s \in hist.loaded :
         /\ mem.appId = s.appId
         /\ mem.publicKey = s.publicKey
         /\ mem.secretKey = UnB64(s.secretKey)
         /\ banner = [status |-> "resumed", url |-> s.pairingUrl]

\* C2 witness: a freshly started attempt is killed in a backoff sleep of a poll.
C2_Witness ==
  /\ pc = "killed"
  /\ kill.at = "poll"
  /\ kill.phase = "backoff"
  /\ ~resumed

\* C3: a run that ends because a poll was answered Expired, or because the
\* poll deadline was reached, leaves no PairingState stored.
C3_ClearedAfterExpiry ==
  (pc = "exit" /\ hist.ended.in = "poll" /\ hist.ended.why \in {"expired", "timeout"})
    => pairingState[env] = {}

\* C4: a run that ends because the encryptedToken of a Completed poll could
\* not be decrypted leaves no PairingState stored.
C4_ClearedAfterDecryptFailure ==
  (pc = "exit" /\ hist.ended.in = "poll" /\ hist.ended.why = "decrypt")
    => pairingState[env] = {}

\* C5: a run that ends because a poll failed on all of its fetches (network
\* failures or 5xx) leaves the stored PairingState as it was when that poll
\* was issued.
C5_KeptAfterExhaustedRetries ==
  (pc = "exit" /\ hist.ended.in = "poll" /\ hist.ended.why = "exhausted")
    => (pairingState[env] = hist.stateAtCall /\ pairingState[env] # {})

\* C6: a stored PairingState that had expired when it was loaded is cleared,
\* its public key is carried by no request and its secret key is given to no
\* decryption; the run goes on with one newly generated keypair.
C6_ExpiredStateNeverReused ==
  hist.entered =>
    \A s \in hist.loaded :
      ExpiredAtLoad(s) =>
        /\ ~resumed
        /\ s \notin pairingState[env]
        /\ s.publicKey \notin hist.pkSent
        /\ UnB64(s.secretKey) \notin hist.skUsed
        /\ Cardinality(hist.generated) = 1
        /\ \A kp \in hist.generated :
             /\ kp.publicKeyBase64 # s.publicKey
             /\ kp.secretKey # UnB64(s.secretKey)
             /\ hist.pkSent \subseteq {kp.publicKeyBase64}
             /\ hist.skUsed \subseteq {kp.secretKey}
             /\ \A st \in pairingState[env] : st.publicKey = kp.publicKeyBase64

\* C6 witness: after an expired state was found, a Completed answer was
\* decrypted with the new secret key.
C6_Witness ==
  /\ hist.entered
  /\ \E s \in hist.loaded : ExpiredAtLoad(s)
  /\ hist.pkSent # {}
  /\ hist.skUsed # {}

\* C7: a stored PairingState that had not expired when it was loaded is
\* resumed: no keypair is generated, no PairingState is saved, and every
\* request carries the stored appId and public key; decryption uses the
\* stored secret key.
C7_ResumeUsesStoredKeys ==
  hist.entered =>
    \A s \in hist.loaded :
      ~ExpiredAtLoad(s) =>
        /\ resumed
        /\ hist.generated = {}
        /\ hist.saved = <<>>
        /\ nextKey = 2
        /\ hist.pkSent \subseteq {s.publicKey}
        /\ hist.appIdSent \subseteq {s.appId}
        /\ hist.skUsed \subseteq {UnB64(s.secretKey)}

\* C7 witness: a resumed run got a Completed answer to a poll that carried
\* the stored public key, and decrypted it.
C7_Witness ==
  /\ resumed
  /\ hist.pkSent = {B64(PubKey(1))}
  /\ hist.skUsed = {SecKey(1)}
  /\ pc = "me"

\* C8: when all 10 fetches of a pairing transport call failed (network
\* failure or 5xx), requestAppPairing throws a NetworkError or a ServerError.
C8_TypedErrorAfterRetries ==
  (pc \in DonePcs /\ fetches = 10 /\ lastOutcome \in RetryKinds)
    => (ret.threw /\ ret.err.class \in {"NetworkError", "ServerError"})

\* C9: a pairing transport call issues between 1 and 10 fetches; it goes on
\* to the next fetch exactly when fewer than 10 were issued and the latest
\* one threw or returned a 5xx, and ends at the latest fetch otherwise.
C9_RetryPolicy ==
  /\ pc \in CallPcs =>
       /\ fetches \in 0..9
       /\ attempt = fetches + (IF sleeping = 0 THEN 1 ELSE 0)
       /\ fetches >= 1 => lastOutcome \in RetryKinds
       /\ sleeping > 0 => fetches >= 1
  /\ pc \in DonePcs =>
       /\ fetches \in 1..10
       /\ attempt = fetches
       /\ ~(fetches < 10 /\ lastOutcome \in RetryKinds)

\* C9 witness: a call ended at its 4th fetch on a response that is no 5xx.
C9_Witness ==
  /\ pc \in DonePcs
  /\ fetches = 4
  /\ lastOutcome = "other"

Delays == <<1000, 2000, 4000, 8000, 16000, 30000, 30000, 30000, 30000>>

\* C10: the backoff sleeps of a pairing transport call are 1000, 2000, 4000,
\* 8000, 16000, 30000, 30000, ... ms, one after each failed fetch but the
\* 10th, so a call that ends at fetch n+1 has slept exactly the first n.
C10_BackoffDelays ==
  pc \in CallPcs \cup DonePcs =>
    /\ Len(sleeps) <= 9
    /\ sleeps = SubSeq(Delays, 1, Len(sleeps))
    /\ sleeping > 0 => (Len(sleeps) = fetches - 1 /\ sleeping = Delays[fetches])
    /\ (pc \in CallPcs /\ sleeping = 0) => Len(sleeps) = fetches
    /\ pc \in DonePcs => (sleeping = 0 /\ Len(sleeps) = fetches - 1)

\* C10 witness: two failures, then a response that requestAppPairing
\* accepts: the call slept 1000 and 2000 ms.
C10_Witness ==
  /\ pc \in DonePcs
  /\ fetches = 3
  /\ ~ret.threw
  /\ sleeps = <<1000, 2000>>

\* C11: in a freshly started login the n-th poll follows n-1 Pending
\* answers, each followed by one sleep of 2000 ms; a poll answered Completed
\* is followed by no sleep, so a run that succeeds at its n-th poll issued
\* n polls and the one initial request and slept 2000 * (n - 1) ms between
\* polls.
C11_PollsAndSleeps ==
  /\ pc = "pollSleep" => sleeping = 2000
  /\ (~resumed /\ hist.saved # <<>> /\ hist.calls < MaxCounted) =>
       LET polls == hist.calls - 1 IN
       /\ Len(hist.saved) = 1
       /\ pc = "pollLoop" => hist.pollSlept = 2000 * polls
       /\ pc \in {"poll", "pollDone", "pollSleep"} =>
            (polls >= 1 /\ hist.pollSlept = 2000 * (polls - 1))
       /\ hist.ended = Ended("poll", "completed") =>
            (polls >= 1 /\ hist.pollSlept = 2000 * (polls - 1))

\* C11 witness: Pending, Pending, then Completed on the third poll: the run
\* succeeds after 4 transport calls and two sleeps between polls.
C11_Witness ==
  /\ pc = "exit"
  /\ result.status = "ok"
  /\ ~resumed
  /\ hist.ended = Ended("poll", "completed")
  /\ hist.calls = 4
  /\ hist.pollSlept = 4000

ProcessEnded == pc \in {"exit", "killed"}

\* In every state of the polling phase the deadline is the parsed expiresAt,
\* or the time pollForAppToken was entered plus 5 minutes when expiresAt is
\* unparsable or not positive; a poll is under way only if the time slept
\* between polls so far is less than what the deadline leaves; and the
\* timed-out error is raised only at or after the deadline.
C12_DeadlineBoundsPolls ==
  /\ pc \in PollingPcs =>
       /\ \A s \in hist.stateAtPoll :
            mem.deadline = IF s.expiresAt.iso /\ s.expiresAt.ms > 0
                           THEN s.expiresAt.ms
                           ELSE hist.pollFrom + 300000
       /\ pc # "pollLoop" => hist.pollFrom + hist.pollSlept < mem.deadline
  /\ hist.ended = Ended("poll", "timeout") =>
       /\ pc = "exit"
       /\ now >= mem.deadline
       /\ result.status = "error"
       /\ result.err.text = "Login timed out. Please try again."

TimedOutText == "Login timed out. Please try again."
ExpiredText == "Pairing request expired. Please try again."

\* C13: every poll is begun at a time before the deadline, the first one
\* included; a loop left because now >= deadline ends the run with the
\* timed-out error, and a poll answered Expired ends it with the expired
\* error, which is another one.
C13_NoPollAtDeadline ==
  /\ pc \in {"poll", "pollDone", "pollSleep"} => hist.callAt < mem.deadline
  /\ pc = "pollLoop" => hist.stateAtPoll # {}
  /\ hist.ended = Ended("poll", "timeout") =>
       /\ now >= mem.deadline
       /\ result.status = "error"
       /\ result.err = Err("Error", TimedOutText)
  /\ hist.ended = Ended("poll", "expired") =>
       /\ result.status = "error"
       /\ result.err = Err("Error", ExpiredText)
  /\ (pc = "exit" /\ result.err.text = TimedOutText) => hist.ended = Ended("poll", "timeout")
  /\ TimedOutText # ExpiredText

\* C13 witness: the deadline had passed when the loop was entered, so the
\* run timed out without a single poll.
C13_Witness ==
  /\ hist.ended = Ended("poll", "timeout")
  /\ ~resumed
  /\ hist.calls = 1
  /\ now >= mem.deadline

\* The times at which the fetches of the current transport call were issued.
RECURSIVE FetchTimes(_, _, _)
FetchTimes(t, delays, n) ==
  IF n = 0 THEN {}
  ELSE {t} \cup (IF delays = <<>> THEN {}
                 ELSE FetchTimes(t + Head(delays), Tail(delays), n - 1))

\* C14: a poll begun before the deadline issues at most one fetch at or
\* after the deadline.
C14_RetriesStopAtDeadline ==
  pc \in {"poll", "pollDone"} =>
    Cardinality({t \in FetchTimes(hist.callAt, sleeps, fetches) : t >= mem.deadline}) <= 1

\* C15: on a successful pairing the PairingState is cleared only after the
\* token was verified and the credential persisted: while the token a poll
\* delivered is being verified, and when it is persisted, the PairingState is
\* still stored.
C15_ClearedAfterPersist ==
  (hist.ended = Ended("poll", "completed") /\ pc \in {"me", "meDone"})
    => pairingState[env] # {}

\* C16: after a run that succeeded through pairing, the credential stored
\* for the environment is the token the Completed payload decrypts to (the
\* sealed text without surrounding white space; the sealed text itself when
\* it has none), and no PairingState is stored for the environment.
C16_StoredTokenIsDecrypted ==
  (pc = "exit" /\ result.status = "ok" /\ hist.ended.why = "completed") =>
    /\ pairingState[env] = {}
    /\ Cardinality(hist.payloads) = 1
    /\ Cardinality(hist.skUsed) = 1
    /\ \A p \in hist.payloads, sk \in hist.skUsed :
         LET d == decryptAppPairingToken(p, sk)
             sealed == UnB64(p).ct.text
         IN  /\ d.ok
             /\ cred[env] = d.token
             /\ cred[env] # <<>>
             /\ sealed \in {cred[env], <<" ">> \o cred[env] \o <<"\n">>}
    /\ \A e \in Environment \ {env} : cred[e] = hist.credAtStart[e]

\* C16 witness: Pending, then a Completed whose payload seals TokNew: the
\* run ends with TokNew stored in staging.
C16_Witness ==
  /\ pc = "exit"
  /\ result.status = "ok"
  /\ env = "staging"
  /\ hist.ended = Ended("poll", "completed")
  /\ \E p \in hist.payloads : UnB64(p).ct.text = TokNew
  /\ cred[env] = TokNew

\* C17: when the initial request of a fresh attempt is answered Completed,
\* no further pairing transport call is issued, no PairingState is saved or
\* stored, the payload goes straight to the decryptor with the new secret
\* key, and the token is persisted only once the identity endpoint accepted
\* it; when it is answered Expired, the run fails at once with the expired
\* error, without saving a PairingState and without polling.
C17_InitialCompletedOrExpired ==
  hist.ended.in = "initial" =>
    /\ ~resumed
    /\ hist.calls = 1
    /\ hist.saved = <<>>
    /\ pairingState[env] = {}
    /\ hist.stateAtPoll = {}
    /\ hist.pollSlept = 0
    /\ pc \notin PollingPcs
    /\ hist.ended.why = "completed" =>
         /\ Cardinality(hist.payloads) = 1
         /\ \A kp \in hist.generated : hist.skUsed = {kp.secretKey}
         /\ pc \in {"me", "meDone", "exit", "killed"}
         /\ hist.tokenSaves # <<>> => (hist.tokenSaves = <<token>> /\ token \in hist.verified)
         /\ cred # hist.credAtStart => hist.tokenSaves # <<>>
    /\ hist.ended.why = "expired" =>
         /\ pc = "exit"
         /\ result.status = "error"
         /\ result.err = Err("Error", ExpiredText)
         /\ hist.payloads = {}
         /\ cred = hist.credAtStart

\* C17 witness: the initial request was answered Completed and the run
\* succeeded after that single pairing transport call.
C17_Witness ==
  /\ hist.ended = Ended("initial", "completed")
  /\ pc = "exit"
  /\ result.status = "ok"
  /\ hist.calls = 1
  /\ cred[env] = TokNew

\* C18: for a 2xx response, requestAppPairing returns Pending iff ok is
\* true, status is "pending" and requestId and expiresAt are strings;
\* Completed iff ok is true, status is "completed" and requestId and
\* result.encryptedToken are strings; Expired iff ok is true, status is
\* "expired" and requestId is a string; in every other case it throws the
\* invalid-response error; and in every case exactly one fetch was issued.
C18_DecodePairingResponse ==
  pc = "decoded" =>
    LET b == input.response.body
        r == output.ret
        str(x, f) == f \in DOMAIN x /\ ~("nonString" \in DOMAIN x /\ f \in x.nonString)
        ok == "ok" \in DOMAIN b /\ b.ok = TRUE
        pending == /\ ok /\ str(b, "status") /\ b.status = "pending"
                   /\ str(b, "requestId") /\ str(b, "expiresAt")
        completed == /\ ok /\ str(b, "status") /\ b.status = "completed"
                     /\ str(b, "requestId")
                     /\ "result" \in DOMAIN b /\ str(b.result, "encryptedToken")
        expired == ok /\ str(b, "status") /\ b.status = "expired" /\ str(b, "requestId")
    IN  /\ input.response.status \in 200..299
        /\ output.fetches = 1
        /\ ~output.retry
        /\ pending <=> (~r.threw /\ r.val.status = "pending")
        /\ pending => (r.val.requestId = b.requestId /\ r.val.expiresAt = b.expiresAt)
        /\ completed <=> (~r.threw /\ r.val.status = "completed")
        /\ completed => /\ r.val.requestId = b.requestId
                        /\ r.val.encryptedToken = b.result.encryptedToken
        /\ expired <=> (~r.threw /\ r.val.status = "expired")
        /\ expired => r.val.requestId = b.requestId
        /\ ~(pending \/ completed \/ expired) <=> r.threw
        /\ r.threw => r.err = Err("Error", "Invalid response from developer API.")

\* C18 witness: a 200 whose body has all of a Pending but an ok that is not
\* true was rejected as invalid.
C18_Witness ==
  /\ pc = "decoded"
  /\ input.response.status = 200
  /\ DOMAIN input.response.body = {"ok", "status", "requestId", "expiresAt"}
  /\ input.response.body.status = "pending"
  /\ input.response.body.ok = FALSE
  /\ output.ret = InvalidResponse

\* The box of payload p opens under secret key sk.
Opens(p, sk) ==
  /\ ~p.ct.junk
  /\ p.ct.to = sk.sec
  /\ p.ct.from = p.epk.pub
  /\ p.ct.nonce = p.nonce

\* C19: decryptAppPairingToken returns a token iff the payload has at least
\* 73 bytes, its version byte is 1, the box opens under the secret key and
\* the opened text is not blank; the box is opened only for a payload of at
\* least 73 bytes with version byte 1; every failure is an error without a
\* token, and nothing else changes.
C19_DecryptChecksInOrder ==
  pc = "decrypted" =>
    LET p == UnB64(input.encryptedTokenBase64)
        d == output.ret
        long == p.len >= 73
        v1 == p.version = 1
        opens == Opens(p, input.secretKey)
        filled == \E i \in DOMAIN p.ct.text : p.ct.text[i] \notin {" ", "\n"}
    IN  /\ d.ok <=> (long /\ v1 /\ opens /\ filled)
        /\ d.opened <=> (long /\ v1)
        /\ d.ok => (d.token # <<>> /\ d.err = NoError)
        /\ ~d.ok => (d.token = <<>> /\ d.err.class = "Error" /\ d.err.text # "")
        /\ (long /\ ~v1) => d.err.text = "Unsupported pairing payload version."
        /\ ~long => d.err.text = "Invalid response from developer API."
        /\ cred = EmptyStore
        /\ pairingState = NoStates
        /\ hist = NewHist

\* C19 witness: a payload of version 2 whose box would open was rejected
\* without being opened.
C19_Witness ==
  /\ pc = "decrypted"
  /\ UnB64(input.encryptedTokenBase64).version = 2
  /\ UnB64(input.encryptedTokenBase64).len >= 73
  /\ Opens(UnB64(input.encryptedTokenBase64), input.secretKey)
  /\ ~output.ret.ok
  /\ ~output.ret.opened

\* C20: a payload packed as version 1, nonce, sender public key and the box
\* of a text sealed for the recipient decrypts, under the recipient's secret
\* key, to that text exactly.
C20_RoundTrip ==
  pc = "decrypted" =>
    LET p == UnB64(input.encryptedTokenBase64) IN
    (p.version = 1 /\ p.len = 73 + Len(p.ct.text) /\ Opens(p, input.secretKey)) =>
      (output.ret.ok /\ output.ret.token = p.ct.text)

\* The characters of sequence s.
Chars(s) == {s[i] : i \in DOMAIN s}

\* The token lines that bee auth status printed.
TokenLines == {i \in DOMAIN output.lines : output.lines[i].kind = "token"}

\* C21: a displayed credential shows at most its first 4 and last 4
\* characters: longer than 8 characters it is shown as the first 4, "..."
\* and the last 4; of 8 characters or fewer it is shown as "********",
\* which holds none of its characters.  No other line holds a character of
\* the credential.
C21_MaskShowsFirstLastFour ==
  pc = "statusDone" =>
    LET t == Trim(cred[env]) IN
    \A i \in DOMAIN output.lines :
      LET l == output.lines[i] IN
      IF l.kind = "token"
      THEN /\ Len(t) > 8 =>
                /\ Len(l.text) = 11
                /\ SubSeq(l.text, 1, 4) = SubSeq(t, 1, 4)
                /\ SubSeq(l.text, 5, 7) = <<".", ".", ".">>
                /\ SubSeq(l.text, 8, 11) = SubSeq(t, Len(t) - 3, Len(t))
                /\ \A k \in 5..(Len(t) - 4) : t[k] \notin Chars(l.text)
           /\ Len(t) <= 8 =>
                /\ l.text = <<"*", "*", "*", "*", "*", "*", "*", "*">>
                /\ Chars(l.text) \cap Chars(t) = {}
      ELSE Chars(l.text) \cap Chars(t) = {}

\* C21 witness: a credential of 9 characters was displayed.
C21_Witness ==
  /\ pc = "statusDone"
  /\ TokenLines # {}
  /\ Len(cred[env]) = 9

\* C22 as stated: the credential "tok_abc123" is displayed as "tok_...123".
C22_MaskExample ==
  (pc = "statusDone" /\ cred[env] = TokExample /\ TokenLines # {}) =>
    \A i \in TokenLines :
      output.lines[i].text = <<"t", "o", "k", "_", ".", ".", ".", "1", "2", "3">>

\* C22, amended: the credential "tok_abc123" is displayed as "tok_...c123".
C22_MaskExampleLastFour ==
  (pc = "statusDone" /\ cred[env] = TokExample /\ TokenLines # {}) =>
    \A i \in TokenLines :
      output.lines[i].text = <<"t", "o", "k", "_", ".", ".", ".", "c", "1", "2", "3">>

\* C22 witness: the credential "tok_abc123" was displayed.
C22_Witness ==
  /\ pc = "statusDone"
  /\ cred[env] = TokExample
  /\ TokenLines # {}

\* C23: when the token obtained by pairing fails its verification at the
\* identity endpoint, the run ends in an error with no credential saved,
\* the stored credentials as they were, and no PairingState stored for the
\* environment.
C23_RejectedTokenLeavesNothing ==
  (pc = "exit" /\ result.status = "error" /\ hist.ended.why = "completed") =>
    /\ hist.tokenSaves = <<>>
    /\ cred = hist.credAtStart
    /\ pairingState[env] = {}
    /\ hist.verified = {}

\* C23 witness: a resumed attempt was completed by a poll and the identity
\* endpoint answered 401 to the decrypted token.
C23_Witness ==
  /\ pc = "exit"
  /\ result.status = "error"
  /\ result.err = Err("Error", "Unauthorized")
  /\ hist.ended = Ended("poll", "completed")
  /\ hist.loaded # {}
  /\ resumed

\* C24: fed the same fetch outcomes, the retry loop of the pairing
\* transport and that of the credential verifier are in step: the same
\* number of fetches, the same delays slept and in progress, and the same
\* end (the same response returned or the same error thrown).
C24_RetryLoopsAgree ==
  pc \in {"retry", "retried"} =>
    /\ output.pairing.fetches = output.clientMe.fetches
    /\ output.pairing.sleeps = output.clientMe.sleeps
    /\ output.pairing.sleeping = output.clientMe.sleeping
    /\ output.pairing.done = output.clientMe.done
    /\ output.pairing.threw = output.clientMe.threw
    /\ output.pairing.err = output.clientMe.err
    /\ output.pairing.response = output.clientMe.response
    /\ output.pairing.fetches = Len(input.outcomes)

\* C24 witness: nine failed fetches and a tenth answered 500: both loops
\* slept nine delays and returned the response.
C24_Witness ==
  /\ pc = "retried"
  /\ output.pairing.fetches = 10
  /\ Len(output.clientMe.sleeps) = 9
  /\ ~output.clientMe.threw
  /\ output.clientMe.response = Response(500, NullBody)

\* The response o is a 404 whose body has no string error code or the
\* error code "Not Found" (or the empty one).
EndpointMissing(o, codes) ==
  /\ o.kind = "response"
  /\ o.status = 404
  /\ \/ "error" \notin DOMAIN o.body
     \/ ("nonString" \in DOMAIN o.body /\ "error" \in o.body.nonString)
     \/ o.body.error \in codes

\* C25: a 404 without a string error code or with the code "Not Found" is
\* taken for a missing endpoint, and nothing but a 404 without another
\* error code is; requestAppPairing tries the candidates in order, goes on
\* to the next after exactly that error, stops at the first other error or
\* answer, returns that candidate with its result, and fails with the
\* missing-endpoint error only when every candidate gave it; every poll
\* goes to the base URL returned.
C25_CandidateFallThrough ==
  pc \in {"authRequest", "authPoll", "authSleep", "authDone"} =>
    LET tried == output.tried
        n == Len(tried)
        missing(i) == tried[i].err = NotFoundError
    IN  /\ n <= Len(output.candidates)
        /\ \A i \in 1..n :
             /\ tried[i].baseUrl = output.candidates[i]
             /\ EndpointMissing(tried[i].outcome, {"Not Found"}) => missing(i)
             /\ missing(i) => EndpointMissing(tried[i].outcome, {"Not Found", ""})
             /\ i < n => missing(i)
        /\ pc = "authRequest" => \A i \in 1..n : missing(i)
        /\ (pc # "authRequest" /\ n > 0 /\ missing(n)) =>
             /\ n = Len(output.candidates)
             /\ output.failedIn = "candidates"
             /\ output.err = NotFoundError
        /\ (pc # "authRequest" /\ n > 0 /\ ~missing(n)) =>
             IF tried[n].err # NoError
             THEN /\ output.failedIn = "candidates"
                  /\ output.err = tried[n].err
                  /\ output.baseUrl = <<>>
             ELSE /\ output.baseUrl = tried[n].baseUrl
                  /\ Returned(output.initial) = requestAppPairing(tried[n].outcome)
        /\ (output.failedIn = "candidates" /\ output.err = NotFoundError) =>
             /\ n = Len(output.candidates)
             /\ \A i \in 1..n : missing(i)
        /\ output.polled \subseteq {output.baseUrl}
        /\ output.polled # {} => output.baseUrl # <<>>

\* C25 witness: the first of two candidates answered 404 "Not Found", the
\* second answered Pending and was polled.
C25_Witness ==
  /\ pc = "authDone"
  /\ Len(output.candidates) = 2
  /\ Len(output.tried) = 2
  /\ output.tried[1].outcome = Response(404, [error |-> "Not Found"])
  /\ output.baseUrl = output.candidates[2]
  /\ output.polled = {output.candidates[2]}
  /\ output.token = TokNew

\* The ways pairing ends that are fatal to the run.
FatalEnds == {"exhausted", "protocol", "expired", "timeout", "decrypt"}

\* C26: a login run that succeeds prints the name of the profile the
\* identity endpoint returned for the token and ends with exit code 0 and
\* nothing on standard error; a run that ends in a fatal condition (retries
\* exhausted, malformed response, Expired, timed out, decrypt failure,
\* verification failure) ends with a non-zero exit code and exactly one line
\* on standard error, the message of the error.
C26_ExitCodeAndMessage ==
  pc = "exit" =>
    /\ result.status \in {"ok", "already", "error"}
    /\ result.status = "ok" =>
         /\ result.exitCode = 0
         /\ result.stderr = <<>>
         /\ token \in hist.verified
         /\ result.user.first_name = "Ada"
         /\ \E i \in DOMAIN result.stdout :
              /\ result.stdout[i].kind = "connected"
              /\ result.stdout[i].text \in {<<"Ada">>, <<"Ada", "L">>}
              /\ result.stdout[i].text[1] = result.user.first_name
    /\ result.status = "error" =>
         /\ result.exitCode # 0
         /\ Len(result.stderr) = 1
         /\ result.stderr[1].text = <<result.err.text, result.err.status>>
         /\ result.err.text # ""
    /\ hist.ended.why \in FatalEnds => result.status = "error"
    /\ (hist.ended.why = "completed" /\ token \notin hist.verified) => result.status = "error"
    /\ (hist.ended.why = "none" /\ hist.verified = {}) => result.status = "error"

\* C26 witness: polling timed out and the run ended with exit code 1 and
\* the timed-out message on standard error.
C26_Witness ==
  /\ pc = "exit"
  /\ hist.ended = Ended("poll", "timeout")
  /\ result.exitCode = 1
  /\ result.stderr = <<Line("error", <<"Login timed out. Please try again.", 0>>)>>

\* The items of the list given to runWithConcurrency, by index.
Items == {i \in Indices : i < input.items}

WellFormedState(st) ==
  /\ st.pairingUrl = <<"https://bee.computer/connect/", st.requestId>>
  /\ UnB64(st.secretKey).sec = UnB64(st.publicKey).pub

\* C28: a PairingState is stored only by the step that follows an initial
\* request answered Pending, never during polling or inside a request: it
\* then holds the requestId and expiresAt of that response, the public key
\* sent in that request, the matching secret key and the pairing URL built
\* from the requestId alone; every stored PairingState has such a URL and
\* such a pair of keys, and nothing is stored for another environment.
C28_StateWrittenOnPendingOnly ==
  /\ [](\A e \in Environment : \A st \in pairingState[e] : e = env /\ WellFormedState(st))
  /\ [][\A e \in Environment :
          (pairingState'[e] # pairingState[e] /\ pairingState'[e] # {}) =>
            /\ e = env
            /\ pc = "initialDone"
            /\ ret.call = "initial"
            /\ ~ret.threw
            /\ ret.val.status = "pending"
            /\ lastOutcome = "other"
            /\ mem.publicKey \in hist.pkSent
            /\ pairingState'[e] =
                 {[appId |-> getDefaultAppId(env),
                   publicKey |-> mem.publicKey,
                   secretKey |-> B64(SecKey(UnB64(mem.publicKey).pub)),
                   requestId |-> ret.val.requestId,
                   pairingUrl |-> <<"https://bee.computer/connect/", ret.val.requestId>>,
                   expiresAt |-> ret.val.expiresAt]}
            /\ pc' = "pollLoop"]_vars

\* C28 witness: the PairingState saved after the Pending answer r1 is
\* stored while a poll is in flight.
C28_Witness ==
  /\ pc = "poll"
  /\ ~resumed
  /\ Len(hist.saved) = 1
  /\ pairingState[env] = {hist.saved[1]}
  /\ hist.saved[1].requestId = "r1"
  /\ hist.saved[1].publicKey = B64(PubKey(2))

\* A step taken while the stored credential is verified changes neither
\* store; the step that follows the verification ends the run when the
\* credential was accepted and goes on to pairing when it was not.
StoredCredentialStep ==
  pc \in {"meExisting", "meExistingDone"} =>
    /\ pairingState' = pairingState
    /\ cred' = cred
    /\ pc = "meExistingDone" =>
         IF ret.threw THEN (pc' = "pairing" /\ result' = result)
         ELSE (pc' = "exit" /\ result'.status = "already")

\* C29: in a run without a token argument whose stored credential the
\* identity endpoint accepts, no pairing transport call is made and the
\* stored credential and PairingState stay as they were; when the
\* verification of the stored credential fails, whatever the reason, the
\* run goes on to pairing; the stored credential is replaced only by a token
\* that the identity endpoint accepted.
C29_StoredCredentialFirst ==
  /\ []((pc = "exit" /\ result.status = "already") =>
          /\ hist.credAtStart[env] # <<>>
          /\ hist.verified = {hist.credAtStart[env]}
          /\ cred = hist.credAtStart
          /\ ~hist.entered
          /\ hist.calls = 0
          /\ hist.pkSent = {}
          /\ hist.clears = 0
          /\ hist.saved = <<>>
          /\ result.exitCode = 0)
  /\ [](pc \notin {"idle"} =>
          /\ (cred[env] # hist.credAtStart[env] => cred[env] \in hist.verified)
          /\ \A e \in Environment \ {env} : cred[e] = hist.credAtStart[e])
  /\ [][StoredCredentialStep]_vars

\* C29 witness: the verification of the stored credential failed, pairing
\* gave a new token, and the old credential is still stored while the new
\* token is being verified.
C29_Witness ==
  /\ pc = "me"
  /\ hist.credAtStart[env] = TokOld
  /\ cred[env] = TokOld
  /\ hist.entered
  /\ hist.verified = {}
  /\ token = TokNew

\* C30: a stored PairingState whose expiresAt is no date is not taken for
\* expired: loginWithAppPairing resumes it with its keys, generates no
\* keypair, makes no initial request, leaves it stored while it polls, and
\* polls up to 5 minutes after the time it loaded the state.
C30_UnparsableExpiryResumed ==
  \A s \in hist.loaded :
    ~s.expiresAt.iso =>
      /\ resumed
      /\ hist.generated = {}
      /\ hist.saved = <<>>
      /\ hist.stateAtPoll = {s}
      /\ hist.pollFrom = hist.loadedAt
      /\ hist.pkSent \subseteq {s.publicKey}
      /\ pc \in PollingPcs =>
           /\ pairingState[env] = {s}
           /\ hist.clears = 0
           /\ mem.deadline = hist.loadedAt + 300000
           /\ mem.publicKey = s.publicKey
           /\ mem.secretKey = UnB64(s.secretKey)
           /\ now < mem.deadline \/ pc = "pollLoop"
      /\ hist.ended = Ended("poll", "timeout") => now = hist.loadedAt + 300000

\* C30 witness: the stored state with an unparsable expiresAt was resumed
\* and its second poll is in flight.
C30_Witness ==
  /\ pc = "poll"
  /\ hist.loaded = {StoredState(env, GarbageDate)}
  /\ resumed
  /\ hist.calls = 2
  /\ mem.deadline = Epoch + 300000

====
